---- MODULE Spec2Model ----
(***************************************************************************)
(* yamlfix: YAML fixture store, insertion engine, transaction executor and *)
(* the test lifecycle built on them (fixture.go, testing.go).              *)
(*                                                                         *)
(* Strings that the code takes apart (file names, table names) are         *)
(* sequences of one-character strings.  Column values are integers.        *)
(* The database behind *sql.DB / *sql.Tx is a collaborator: it is modelled *)
(* as a store of tables (a table is a set of rows, a row may be stored     *)
(* once, as under a primary key) with snapshot transactions whose DDL is   *)
(* transactional.                                                          *)
(***************************************************************************)
EXTENDS Integers, Sequences, FiniteSets, TLC

VARIABLES
    tx,            \* Fixture.tx: handle of the held transaction, 0 = nil
    tableOrder,    \* Fixture.tableOrder
    fixtures,      \* Fixture.fixtures: table name -> rows
    autoRollback,  \* Fixture.autoRollback
    txs,           \* the connection: every transaction it has begun
    store,         \* the connection: committed content
    log,           \* what the last operation did, in order
    last,          \* the last operation and how it ended
    firstSeen,     \* history: table names in order of first appearance in the loaded documents
    iteration,     \* the runtime: the order in which the next operation's range over a row yields its columns
    peer,          \* a second Fixture on the same connection: its tx, fixtures, tableOrder, autoRollback
    begunBy        \* history: the Fixture ("self" or "peer") that began each transaction

vars == <<tx, tableOrder, fixtures, autoRollback, txs, store, log, last, firstSeen, iteration,
          peer, begunBy>>

(***************************************************************************)
(* Bounds                                                                  *)
(***************************************************************************)
\* transactions the connection hands out in one behaviour
MaxTx == 2

(***************************************************************************)
(* Strings, rows, documents                                                *)
(***************************************************************************)
Slash == "/"
Dot == "."

Users == <<"u">>
Posts == <<"p">>
NoName == <<>>

\* "", "u.y", "d/p.y", ".y"
FileNames ==
    { <<>>, <<"u", ".", "y">>, <<"d", "/", "p", ".", "y">>, <<".", "y">> }

Null == 0 - 1

U1 == [id |-> 1, name |-> 11]
U2 == [id |-> 2, name |-> 12]
U3 == [id |-> 3, name |-> 13]
P1 == [id |-> 1, user_id |-> 1]
P2 == [id |-> 2, user_id |-> 2]
\* rows of other shapes: without name, with a further column
U4 == [id |-> 4]
U5 == [id |-> 5, name |-> 15, email |-> 25]

Entry(n, rs) == [name |-> n, rows |-> rs]

ListDoc(rs) == [shape |-> "list", rows |-> rs, entries |-> <<>>]
MapDoc(es) == [shape |-> "map", rows |-> <<>>, entries |-> es]
NullDoc == [shape |-> "null", rows |-> <<>>, entries |-> <<>>]
BadDoc == [shape |-> "bad", rows |-> <<>>, entries |-> <<>>]

Documents ==
    { ListDoc(<<U1, U2>>),
      ListDoc(<<P1>>),
      MapDoc(<<Entry(Users, <<U1>>), Entry(Posts, <<P1>>)>>),
      MapDoc(<<>>),
      NullDoc,
      BadDoc }

Range(s) == { s[i] : i \in DOMAIN s }

\* the empty Go map
EmptyMap == [n \in {} |-> <<>>]

\* m with key k set to v (Go: m[k] = v)
MapPut(m, k, v) == [n \in DOMAIN m \cup {k} |-> IF n = k THEN v ELSE m[n]]

(***************************************************************************)
(* File name to table name                                                 *)
(***************************************************************************)
RECURSIVE StripTrailingSlashes(_)
StripTrailingSlashes(p) ==
    IF Len(p) > 0 /\ p[Len(p)] = Slash
    THEN StripTrailingSlashes(SubSeq(p, 1, Len(p) - 1))
    ELSE p

\* index of the last path separator of p, 0 if there is none
LastSlash(p) ==
    LET S == { i \in DOMAIN p : p[i] = Slash }
    IN IF S = {} THEN 0 ELSE CHOOSE i \in S : \A j \in S : j <= i

\* filepath.Base
Base(path) ==
    IF path = <<>> THEN <<Dot>>
    ELSE LET p == StripTrailingSlashes(path)
             q == SubSeq(p, LastSlash(p) + 1, Len(p))
         IN IF q = <<>> THEN <<Slash>> ELSE q

\* filepath.Ext that takes the suffix from the first dot of the last path element
Ext_FirstDot(path) ==
    LET D == { i \in DOMAIN path : path[i] = Dot /\ i > LastSlash(path) }
    IN IF D = {} THEN <<>>
       ELSE SubSeq(path, CHOOSE i \in D : \A j \in D : i <= j, Len(path))

\* filepath.Ext: the suffix starting at the last dot of the last path element
Ext(path) ==
    LET D == { i \in DOMAIN path : path[i] = Dot /\ i > LastSlash(path) }
    IN IF D = {} THEN <<>>
       ELSE SubSeq(path, CHOOSE i \in D : \A j \in D : j <= i, Len(path))

\* strings.TrimSuffix
TrimSuffix(s, suffix) ==
    IF Len(suffix) <= Len(s) /\ SubSeq(s, Len(s) - Len(suffix) + 1, Len(s)) = suffix
    THEN SubSeq(s, 1, Len(s) - Len(suffix))
    ELSE s

\* extractTableNameFromFilename that keeps the extension
extractTableNameFromFilename_KeepsExt(filename) ==
    IF filename = <<>> THEN NoName ELSE Base(filename)

extractTableNameFromFilename(filename) ==
    IF filename = <<>> THEN NoName
    ELSE LET base == Base(filename)
             ext == Ext(base)
         IN TrimSuffix(base, ext)

(***************************************************************************)
(* Decoding (yaml.Unmarshal into the two Go types)                         *)
(***************************************************************************)
\* into map[string][]map[string]interface{}: a mapping decodes to a map (the key
\* order of the document is not kept), an empty document to the nil map
UnmarshalMulti(doc) ==
    IF doc.shape = "map"
    THEN [ok |-> TRUE,
          val |-> [n \in { e.name : e \in Range(doc.entries) } |->
                      (CHOOSE e \in Range(doc.entries) : e.name = n).rows]]
    ELSE IF doc.shape = "null" THEN [ok |-> TRUE, val |-> EmptyMap]
    ELSE [ok |-> FALSE, val |-> EmptyMap]

\* into []map[string]interface{}: a list decodes to its rows, an empty document to nil
UnmarshalSingle(doc) ==
    IF doc.shape = "list" THEN [ok |-> TRUE, val |-> doc.rows]
    ELSE IF doc.shape = "null" THEN [ok |-> TRUE, val |-> <<>>]
    ELSE [ok |-> FALSE, val |-> <<>>]

isMultiTableFormat(data) == DOMAIN data # {}

(***************************************************************************)
(* Fixture store                                                           *)
(* A store value is S = [fixtures, tableOrder].                            *)
(***************************************************************************)
FS(fx, order) == [fixtures |-> fx, tableOrder |-> order]

\* every way of listing the elements of the finite set S once
Perms(S) ==
    { p \in [1..Cardinality(S) -> S] : \A i, j \in 1..Cardinality(S) : p[i] = p[j] => i = j }

\* updateTableOrder that puts the new names in front of the order
updateTableOrder_Prepends(S) ==
    LET new == DOMAIN S.fixtures \ Range(S.tableOrder)
    IN { FS(S.fixtures, p \o S.tableOrder) : p \in Perms(new) }

\* updateTableOrder without its look at the names already listed
updateTableOrder_AppendsAll(S) ==
    { FS(S.fixtures, S.tableOrder \o p) : p \in Perms(DOMAIN S.fixtures) }

\* the results updateTableOrder can have: the names of f.fixtures missing from
\* tableOrder are appended in the order the map iteration yields them
updateTableOrder(S) ==
    LET new == DOMAIN S.fixtures \ Range(S.tableOrder)
    IN { FS(S.fixtures, S.tableOrder \o p) : p \in Perms(new) }

RECURSIVE PutAll(_, _, _)
PutAll(fx, data, keys) ==
    IF keys = {} THEN fx
    ELSE LET k == CHOOSE k \in keys : TRUE
         IN PutAll(MapPut(fx, k, data[k]), data, keys \ {k})

loadMultiTableData(S, yamlData) ==
    updateTableOrder(FS(PutAll(S.fixtures, yamlData, DOMAIN yamlData), S.tableOrder))

\* loadSingleTableData that appends the records to the rows the table already has
loadSingleTableData_Appends(S, tableName, records) ==
    updateTableOrder(FS(MapPut(S.fixtures, tableName,
                               (IF tableName \in DOMAIN S.fixtures THEN S.fixtures[tableName]
                                ELSE <<>>) \o records),
                        S.tableOrder))

loadSingleTableData(S, tableName, records) ==
    updateTableOrder(FS(MapPut(S.fixtures, tableName, records), S.tableOrder))

\* LoadFromYAMLWithFilename that stores the rows before it looks at the table name
LoadFromYAMLWithFilename_StoresFirst(S, doc, filename) ==
    LET multi == UnmarshalMulti(doc)
        single == UnmarshalSingle(doc)
        tableName == extractTableNameFromFilename(filename)
    IN IF multi.ok /\ isMultiTableFormat(multi.val)
       THEN { [err |-> "", S |-> T] : T \in loadMultiTableData(S, multi.val) }
       ELSE IF ~single.ok THEN { [err |-> "parse", S |-> S] }
       ELSE { [err |-> IF tableName = NoName THEN "noname" ELSE "", S |-> T] :
                 T \in loadSingleTableData(S, tableName, single.val) }

\* The set of outcomes [err, S] of LoadFromYAMLWithFilename(data, filename)
LoadFromYAMLWithFilename(S, doc, filename) ==
    LET multi == UnmarshalMulti(doc)
        single == UnmarshalSingle(doc)
        tableName == extractTableNameFromFilename(filename)
    IN IF multi.ok /\ isMultiTableFormat(multi.val)
       THEN { [err |-> "", S |-> T] : T \in loadMultiTableData(S, multi.val) }
       ELSE IF ~single.ok THEN { [err |-> "parse", S |-> S] }
       ELSE IF tableName = NoName THEN { [err |-> "noname", S |-> S] }
       ELSE { [err |-> "", S |-> T] : T \in loadSingleTableData(S, tableName, single.val) }

LoadFromYAML(S, doc) == LoadFromYAMLWithFilename(S, doc, <<>>)

\* readable: whether os.ReadFile succeeds
LoadFromFile(S, doc, filepath, readable) ==
    IF ~readable THEN { [err |-> "read", S |-> S] }
    ELSE LoadFromYAMLWithFilename(S, doc, filepath)

\* history: the names of one document in the order the document lists them
DocNames(doc, filename) ==
    IF doc.shape = "map" /\ doc.entries # <<>>
    THEN [i \in DOMAIN doc.entries |-> doc.entries[i].name]
    ELSE <<extractTableNameFromFilename(filename)>>

RECURSIVE AppendNew(_, _)
AppendNew(seen, names) ==
    IF names = <<>> THEN seen
    ELSE AppendNew(IF Head(names) \in Range(seen) THEN seen ELSE Append(seen, Head(names)),
                   Tail(names))

(***************************************************************************)
(* The connection (sql.DB) and its transactions (sql.Tx)                   *)
(* A machine value m = [tx, txs, store, log] is the part of the state a    *)
(* handler changes while it runs; handle 0 stands for f.db itself.         *)
(***************************************************************************)
\* content of a database: existing table -> set of stored rows
NoTables == [t \in {} |-> {}]
EmptyTables == [t \in {Users, Posts} |-> {}]
\* the schema object FOREIGN KEY (user_id) REFERENCES users(id) of posts
PostsUserFk == <<"p", ">", "u">>
\* users and posts, empty, with the foreign key enforced
LinkedTables == [t \in {Users, Posts, PostsUserFk} |-> {}]

\* the row breaks the foreign key of posts in the content v
BreaksFk(v, t, row) ==
    /\ PostsUserFk \in DOMAIN v
    /\ t = Posts
    /\ "user_id" \in DOMAIN row
    /\ row.user_id # Null
    /\ ~\E u \in v[Users] : "id" \in DOMAIN u /\ u.id = row.user_id

Ev(k, by, h, t, n, ok) == [k |-> k, by |-> by, tx |-> h, t |-> t, n |-> n, ok |-> ok]
Emit(m, e) == [m EXCEPT !.log = Append(@, e)]

IsOpen(m, h) == h \in DOMAIN m.txs /\ m.txs[h].state = "open"

\* what a statement run on handle h reads
View(m, h) == IF h = 0 THEN m.store ELSE m.txs[h].view

SetView(m, h, v) ==
    IF h = 0 THEN [m EXCEPT !.store = v] ELSE [m EXCEPT !.txs[h].view = v]

\* a handle accepts statements: the connection always, a transaction until it is closed
Usable(m, h) == h = 0 \/ IsOpen(m, h)

\* db.Begin(): a new transaction on a snapshot of the committed content
dbBegin(m, fails) ==
    IF fails THEN [m |-> m, h |-> 0, ok |-> FALSE]
    ELSE [m |-> [m EXCEPT !.txs = Append(@, [state |-> "open", view |-> m.store])],
          h |-> Len(m.txs) + 1,
          ok |-> TRUE]

\* tx.Commit(): a closed transaction answers ErrTxDone; otherwise the transaction
\* is done whatever the driver answers, and its writes are kept unless the driver fails.
\* The event carries n = 1 when the call closed the transaction, n = 0 on ErrTxDone.
txCommit(m, h, by, fails) ==
    IF ~IsOpen(m, h)
       THEN [m |-> Emit(m, Ev("commit", by, h, NoName, 0, FALSE)), ok |-> FALSE]
       ELSE [m |-> Emit([m EXCEPT !.txs[h].state = "done",
                                  !.txs[h].view = NoTables,
                                  !.store = IF fails THEN @ ELSE m.txs[h].view],
                        Ev("commit", by, h, NoName, 1, ~fails)),
             ok |-> ~fails]

\* tx.Rollback(): likewise; the writes of the transaction are dropped
txRollback(m, h, by, fails) ==
    IF ~IsOpen(m, h)
       THEN [m |-> Emit(m, Ev("rollback", by, h, NoName, 0, FALSE)), ok |-> FALSE]
       ELSE [m |-> Emit([m EXCEPT !.txs[h].state = "done",
                                  !.txs[h].view = NoTables],
                        Ev("rollback", by, h, NoName, 1, ~fails)),
             ok |-> ~fails]

\* executor.Exec of an INSERT: fails on a closed transaction, a missing table,
\* a row the table already holds or a row that breaks an enforced foreign key
ExecInsert(m, h, t, row) ==
    LET v == View(m, h)
    IN IF ~Usable(m, h) \/ t \notin DOMAIN v \/ row \in v[t] \/ BreaksFk(v, t, row)
       THEN [m |-> m, ok |-> FALSE]
       ELSE [m |-> SetView(m, h, [v EXCEPT ![t] = @ \cup {row}]), ok |-> TRUE]

\* executor.Exec of a CREATE TABLE: fails on a closed transaction or an existing table
ExecCreate(m, h, t) ==
    LET v == View(m, h)
    IN IF ~Usable(m, h) \/ t \in DOMAIN v
       THEN [m |-> m, ok |-> FALSE]
       ELSE [m |-> SetView(m, h, MapPut(v, t, {})), ok |-> TRUE]

\* SELECT COUNT FROM t: the number of rows, Null when the query fails
QueryCount(m, h, t) ==
    LET v == View(m, h)
    IN IF ~Usable(m, h) \/ t \notin DOMAIN v THEN Null ELSE Cardinality(v[t])

(***************************************************************************)
(* Transaction executor                                                    *)
(* The result of a call is handed to the operator that continues after it. *)
(***************************************************************************)
NoErr == [e |-> "", t |-> NoName]
Err(e) == [e |-> e, t |-> NoName]

\* BeginTransaction after db.Begin() answered r
Began(r) ==
    IF ~r.ok
    THEN [m |-> Emit(r.m, Ev("begin", "fixture", 0, NoName, 0, FALSE)), err |-> Err("begin")]
    ELSE [m |-> Emit([r.m EXCEPT !.tx = r.h], Ev("begin", "fixture", r.h, NoName, 0, TRUE)),
          err |-> NoErr]

\* BeginTransaction without the test for a held transaction
BeginTransaction_NoGuard(m, fails) == Began(dbBegin(m, fails))

\* the continuation of a BeginTransaction that tests f.tx only after db.Begin()
BeganThenTested(held, r) ==
    IF ~r.ok
    THEN [m |-> Emit(r.m, Ev("begin", "fixture", 0, NoName, 0, FALSE)), err |-> Err("begin")]
    ELSE IF held # 0 THEN [m |-> r.m, err |-> Err("already")]
    ELSE [m |-> Emit([r.m EXCEPT !.tx = r.h], Ev("begin", "fixture", r.h, NoName, 0, TRUE)),
          err |-> NoErr]

\* BeginTransaction that asks the connection first and tests f.tx afterwards
BeginTransaction_BeginsFirst(m, fails) == BeganThenTested(m.tx, dbBegin(m, fails))

BeginTransaction(m, fails) ==
    IF m.tx # 0 THEN [m |-> m, err |-> Err("already")]
    ELSE Began(dbBegin(m, fails))

\* f.tx = nil; return err, after tx.Commit() / tx.Rollback() answered r
DropHandle(r, e) ==
    [m |-> [r.m EXCEPT !.tx = 0], err |-> IF r.ok THEN NoErr ELSE Err(e)]

\* the same without f.tx = nil
KeepHandle(r, e) == [m |-> r.m, err |-> IF r.ok THEN NoErr ELSE Err(e)]

\* f.tx = nil only when tx.Commit() returned no error
DropHandleOnSuccess(r, e) ==
    [m |-> IF r.ok THEN [r.m EXCEPT !.tx = 0] ELSE r.m, err |-> IF r.ok THEN NoErr ELSE Err(e)]

\* CommitTransaction that keeps the handle when the commit fails
CommitTransaction_KeepsHandleOnError(m, fails) ==
    IF m.tx = 0 THEN [m |-> m, err |-> Err("noactive")]
    ELSE DropHandleOnSuccess(txCommit(m, m.tx, "fixture", fails), "commit")

CommitTransaction(m, fails) ==
    IF m.tx = 0 THEN [m |-> m, err |-> Err("noactive")]
    ELSE DropHandle(txCommit(m, m.tx, "fixture", fails), "commit")

\* RollbackTransaction that reports nothing when no transaction is held
RollbackTransaction_SilentIdle(m, fails) ==
    IF m.tx = 0 THEN [m |-> m, err |-> NoErr]
    ELSE DropHandle(txRollback(m, m.tx, "fixture", fails), "rollback")

\* RollbackTransaction that keeps the handle after the rollback
RollbackTransaction_KeepsHandle(m, fails) ==
    IF m.tx = 0 THEN [m |-> m, err |-> Err("noactive")]
    ELSE KeepHandle(txRollback(m, m.tx, "fixture", fails), "rollback")

RollbackTransaction(m, fails) ==
    IF m.tx = 0 THEN [m |-> m, err |-> Err("noactive")]
    ELSE DropHandle(txRollback(m, m.tx, "fixture", fails), "rollback")

\* getExecutor that always hands out the connection
getExecutor_AlwaysDb(m) == 0

getExecutor(m) == m.tx

\* CleanUp that rolls back a held transaction in either mode
CleanUp_IgnoresMode(m, auto, fails) ==
    IF m.tx # 0 THEN RollbackTransaction(m, fails)
    ELSE [m |-> m, err |-> NoErr]

CleanUp(m, auto, fails) ==
    IF auto /\ m.tx # 0 THEN RollbackTransaction(m, fails)
    ELSE [m |-> m, err |-> NoErr]

(***************************************************************************)
(* Insertion engine                                                        *)
(***************************************************************************)
\* the order the model gives the column names
ColumnRank(c) ==
    IF c = "id" THEN 1 ELSE IF c = "name" THEN 2 ELSE IF c = "user_id" THEN 3 ELSE 4

Iterations == {"up", "down"}

\* for col := range records[0]: the columns of the row as the iteration it yields them
Columns(record, it) ==
    LET C == DOMAIN record
        before(a, b) == IF it = "up" THEN ColumnRank(a) < ColumnRank(b)
                        ELSE ColumnRank(b) < ColumnRank(a)
    IN [k \in 1..Cardinality(C) |->
           CHOOSE c \in C : Cardinality({ d \in C : before(d, c) }) = k - 1]

\* parameters taken from the record in the order of its own columns, whatever
\* the column list names
Values_ByPosition(cols, record) ==
    [k \in DOMAIN cols |->
        IF k <= Cardinality(DOMAIN record) THEN record[Columns(record, "up")[k]] ELSE Null]

\* values[i] = record[col]: the parameters of one row for the column list cols
Values(cols, record) ==
    [k \in DOMAIN cols |-> IF cols[k] \in DOMAIN record THEN record[cols[k]] ELSE Null]

\* the row INSERT INTO t (cols) VALUES (?, ...) stores for the parameters vals
Bind(cols, vals) ==
    [c \in Range(cols) |-> vals[CHOOSE k \in DOMAIN cols : cols[k] = c]]

\* one execution of the insert statement of a table: its column list and parameters
ExecEv(h, t, i, cols, vals, ok) ==
    [k |-> "fixture", by |-> "fixture", tx |-> h, t |-> t, n |-> i, ok |-> ok,
     cols |-> cols, vals |-> vals]

RECURSIVE insertRows(_, _, _, _, _, _)
RECURSIVE rowDone(_, _, _, _, _, _)

\* insertTable after executor.Exec answered r for row i
rowDone(r, h, tableName, cols, records, i) ==
    IF ~r.ok
    THEN [m |-> Emit(r.m, ExecEv(h, tableName, i, cols, Values(cols, records[i]), FALSE)),
          err |-> Err("exec")]
    ELSE insertRows(Emit(r.m, ExecEv(h, tableName, i, cols, Values(cols, records[i]), TRUE)),
                    h, tableName, cols, records, i + 1)

\* the row loop of insertTable, from row i on
insertRows(m, h, tableName, cols, records, i) ==
    IF i > Len(records) THEN [m |-> m, err |-> NoErr]
    ELSE rowDone(ExecInsert(m, h, tableName, Bind(cols, Values(cols, records[i]))),
                 h, tableName, cols, records, i)

\* insertTable that executes the statement for the first record only
insertTable_FirstRowOnly(m, h, tableName, records) ==
    IF Len(records) = 0 THEN [m |-> m, err |-> NoErr]
    ELSE insertRows(m, h, tableName, Columns(records[1], m.iter), <<records[1]>>, 1)

insertTable(m, h, tableName, records) ==
    IF Len(records) = 0 THEN [m |-> m, err |-> NoErr]
    ELSE insertRows(m, h, tableName, Columns(records[1], m.iter), records, 1)

RECURSIVE insertTables(_, _, _, _)
RECURSIVE tableDone(_, _, _, _)

\* a table loop that goes on to the later tables before it returns the error
tableDone_ContinuesOnError(r, h, S, k) ==
    IF r.err # NoErr
    THEN [m |-> insertTables(r.m, h, S, k + 1).m, err |-> [e |-> "insert", t |-> S.tableOrder[k]]]
    ELSE insertTables(r.m, h, S, k + 1)

\* InsertFixtures after insertTable answered r for the table at position k
tableDone(r, h, S, k) ==
    IF r.err # NoErr THEN [m |-> r.m, err |-> [e |-> "insert", t |-> S.tableOrder[k]]]
    ELSE insertTables(r.m, h, S, k + 1)

\* the table loop of InsertFixtures, from position k of tableOrder on
insertTables(m, h, S, k) ==
    IF k > Len(S.tableOrder) THEN [m |-> m, err |-> NoErr]
    ELSE IF Len(S.fixtures[S.tableOrder[k]]) = 0 THEN insertTables(m, h, S, k + 1)
    ELSE tableDone(insertTable(m, h, S.tableOrder[k], S.fixtures[S.tableOrder[k]]), h, S, k)

InsertFixtures(m, S) == insertTables(m, getExecutor(m), S, 1)

(***************************************************************************)
(* Callbacks                                                               *)
(* A callback is the list of statements it issues and the way it ends      *)
(* after them: "ok" (returns / returns nil), "fail" (t.Fatal, or a         *)
(* returned error) or "panic".  A statement that fails makes the callback  *)
(* fail at that point, as the callbacks of the examples do.                *)
(***************************************************************************)
Create(t) == [k |-> "create", t |-> t, row |-> U3]
Insert(t, row) == [k |-> "insert", t |-> t, row |-> row]
Count(t) == [k |-> "count", t |-> t, row |-> U3]
InsertTestDataCall == [k |-> "fixtures", t |-> NoName, row |-> U3]
GetTransactionCall == [k |-> "gettx", t |-> NoName, row |-> U3]
\* tx.Commit() / tx.Rollback() called on the handle the callback was given
HandleCommit == [k |-> "txcommit", t |-> NoName, row |-> U3]
HandleRollback == [k |-> "txrollback", t |-> NoName, row |-> U3]

Fn(stmts, end) == [stmts |-> stmts, end |-> end]
NilFn == Fn(<<>>, "nil")

\* a statement of kind k on table t ran on handle h and the store answered r
Executed(r, k, by, h, t) ==
    [m |-> Emit(r.m, Ev(k, by, h, t, 0, r.ok)), ok |-> r.ok]

\* a count on table t read n on handle h
Counted(m, n, by, h, t) ==
    [m |-> Emit(m, Ev("count", by, h, t, n, n # Null)), ok |-> n # Null]

\* TestFixture.InsertTestData after InsertFixtures answered r
InsertTestData(r) == [m |-> r.m, ok |-> r.err = NoErr]

\* TestFixture.GetTransaction called by a callback: the event carries the handle it returns
GetTransaction(m, by) ==
    [m |-> Emit(m, Ev("GetTransaction", by, m.tx, NoName, 0, m.tx # 0)), ok |-> TRUE]

\* one statement of a callback that was handed the handle h
RunStmt(m, by, h, S, st) ==
    IF st.k = "create" THEN Executed(ExecCreate(m, h, st.t), "create", by, h, st.t)
    ELSE IF st.k = "insert" THEN Executed(ExecInsert(m, h, st.t, st.row), "insert", by, h, st.t)
    ELSE IF st.k = "count" THEN Counted(m, QueryCount(m, h, st.t), by, h, st.t)
    ELSE IF st.k = "gettx" THEN GetTransaction(m, by)
    ELSE IF st.k = "txcommit" THEN txCommit(m, h, by, FALSE)
    ELSE IF st.k = "txrollback" THEN txRollback(m, h, by, FALSE)
    ELSE InsertTestData(InsertFixtures(Emit(m, Ev("InsertTestData", by, h, NoName, 0, TRUE)), S))

RECURSIVE RunStmts(_, _, _, _, _, _)
RECURSIVE stmtDone(_, _, _, _, _, _)

\* the callback after its statement i answered r
stmtDone(r, by, h, S, stmts, i) ==
    IF ~r.ok THEN r ELSE RunStmts(r.m, by, h, S, stmts, i + 1)

RunStmts(m, by, h, S, stmts, i) ==
    IF i > Len(stmts) THEN [m |-> m, ok |-> TRUE]
    ELSE stmtDone(RunStmt(m, by, h, S, stmts[i]), by, h, S, stmts, i)

\* the end of the callback fn whose statements answered r
Exit(r, by, h, fn) ==
    [m |-> Emit(r.m, Ev("exit", by, h, NoName, 0, r.ok /\ fn.end = "ok")),
     end |-> IF r.ok THEN fn.end ELSE "fail"]

\* the call fn(h): [m, end]
RunCallback(m, by, h, S, fn) ==
    Exit(RunStmts(Emit(m, Ev("enter", by, h, NoName, 0, TRUE)), by, h, S, fn.stmts, 1),
         by, h, fn)

\* how a test run ends when a callback ended with end
Halt(end) == IF end = "ok" THEN "ok" ELSE IF end = "panic" THEN "panic" ELSE "fatal"

(***************************************************************************)
(* Lifecycle                                                               *)
(* A handler yields [m, outcome, err]: outcome is "ok" (returned, no       *)
(* error), "error" (returned err), "fatal" (t.Fatalf ended the test        *)
(* goroutine) or "panic".                                                  *)
(***************************************************************************)
Result(m, outcome, err) == [m |-> m, outcome |-> outcome, err |-> err]

\* WithTransaction after CommitTransaction answered k
wtCommitted(k) == Result(k.m, IF k.err = NoErr THEN "ok" ELSE "error", k.err)

\* the continuation of a WithTransaction that returns fn's error without rolling back
wtCalled_NoRollbackOnFnError(c, auto, closeFails) ==
    IF c.end = "panic" THEN Result(c.m, "panic", NoErr)
    ELSE IF c.end # "ok" THEN Result(c.m, "error", Err("fn"))
    ELSE IF ~auto THEN wtCommitted(CommitTransaction(c.m, closeFails))
    ELSE Result(c.m, "ok", NoErr)

\* WithTransaction after fn() ended as c
wtCalled(c, auto, closeFails) ==
    IF c.end = "panic" THEN Result(c.m, "panic", NoErr)
    ELSE IF c.end # "ok" THEN Result(RollbackTransaction(c.m, closeFails).m, "error", Err("fn"))
    ELSE IF ~auto THEN wtCommitted(CommitTransaction(c.m, closeFails))
    ELSE Result(c.m, "ok", NoErr)

\* the rollback's answer after a failed insertion, returned in place of the
\* insertion error when the rollback failed too
wtRolledBack_ReturnsRollbackError(rb, f) ==
    Result(rb.m, "error", IF rb.err # NoErr THEN rb.err ELSE f.err)

\* a WithTransaction that returns the error of its rollback when that fails
wtInserted_ReturnsRollbackError(f, S, auto, fn, closeFails) ==
    IF f.err # NoErr THEN wtRolledBack_ReturnsRollbackError(RollbackTransaction(f.m, closeFails), f)
    ELSE wtCalled(RunCallback(f.m, "fn", f.m.tx, S, fn), auto, closeFails)

\* WithTransaction after InsertFixtures answered f
wtInserted(f, S, auto, fn, closeFails) ==
    IF f.err # NoErr THEN Result(RollbackTransaction(f.m, closeFails).m, "error", f.err)
    ELSE wtCalled(RunCallback(f.m, "fn", f.m.tx, S, fn), auto, closeFails)

\* the deferred function of WithTransaction, run when the body ended as r
\* (on return and on panic)
wtDeferred(r, auto, closeFails) ==
    Result(IF auto THEN RollbackTransaction(r.m, closeFails).m ELSE r.m, r.outcome, r.err)

\* a body that inserts after fn: InsertFixtures answered f
wtInsertedLast(f, auto, closeFails) ==
    IF f.err # NoErr THEN Result(RollbackTransaction(f.m, closeFails).m, "error", f.err)
    ELSE IF ~auto THEN wtCommitted(CommitTransaction(f.m, closeFails))
    ELSE Result(f.m, "ok", NoErr)

\* a body that calls fn first: fn() ended as c
wtCalledFirst(c, S, auto, closeFails) ==
    IF c.end = "panic" THEN Result(c.m, "panic", NoErr)
    ELSE IF c.end # "ok" THEN Result(RollbackTransaction(c.m, closeFails).m, "error", Err("fn"))
    ELSE wtInsertedLast(InsertFixtures(c.m, S), auto, closeFails)

\* a WithTransaction that calls fn before it inserts the fixtures
wtBegun_FnFirst(b, S, auto, fn, closeFails) ==
    IF b.err # NoErr THEN Result(b.m, "error", b.err)
    ELSE wtDeferred(wtCalledFirst(RunCallback(b.m, "fn", b.m.tx, S, fn), S, auto, closeFails),
                    auto, closeFails)

\* a WithTransaction that registers its deferred function before it begins
wtBegun_DefersFirst(b, S, auto, fn, closeFails) ==
    IF b.err # NoErr THEN wtDeferred(Result(b.m, "error", b.err), auto, closeFails)
    ELSE wtDeferred(wtInserted(InsertFixtures(b.m, S), S, auto, fn, closeFails), auto, closeFails)

\* WithTransaction after BeginTransaction answered b
wtBegun(b, S, auto, fn, closeFails) ==
    IF b.err # NoErr THEN Result(b.m, "error", b.err)
    ELSE wtDeferred(wtInserted(InsertFixtures(b.m, S), S, auto, fn, closeFails), auto, closeFails)

WithTransaction(m, S, auto, fn, beginFails, closeFails) ==
    wtBegun(BeginTransaction(m, beginFails), S, auto, fn, closeFails)

\* a test run after testFn ended as t
rtTested(t) == Result(t.m, Halt(t.end), NoErr)

\* a run that goes on to testFn although the insertion failed
rtInserted_IgnoresInsertError(f, S, testFn) ==
    rtTested(RunCallback(f.m, "test", f.m.tx, S, testFn))

\* a run that hands testFn the connection instead of the transaction
rtInserted_TestOnDb(f, S, testFn) ==
    IF f.err # NoErr THEN Result(f.m, "fatal", f.err)
    ELSE rtTested(RunCallback(f.m, "test", 0, S, testFn))

\* RunTestWithSetup after InsertFixtures answered f
rtInserted(f, S, testFn) ==
    IF f.err # NoErr THEN Result(f.m, "fatal", f.err)
    ELSE rtTested(RunCallback(f.m, "test", f.m.tx, S, testFn))

\* RunTestWithSetup after the setup stage ended as s
rtSetupDone(s, S, testFn) ==
    IF s.end # "ok" THEN Result(s.m, Halt(s.end), NoErr)
    ELSE rtInserted(InsertFixtures(s.m, S), S, testFn)

\* a body that runs the setup stage after the insertion: setup ended as s
rtSetupLast(s, S, testFn) ==
    IF s.end # "ok" THEN Result(s.m, Halt(s.end), NoErr)
    ELSE rtTested(RunCallback(s.m, "test", s.m.tx, S, testFn))

\* a body that inserts the fixtures first: InsertFixtures answered f
rtInsertedFirst(f, S, setupFn, testFn) ==
    IF f.err # NoErr THEN Result(f.m, "fatal", f.err)
    ELSE rtSetupLast(IF setupFn = NilFn THEN [m |-> f.m, end |-> "ok"]
                     ELSE RunCallback(f.m, "setup", f.m.tx, S, setupFn),
                     S, testFn)

\* RunTestWithSetupBody with the fixtures inserted before setupFn runs
RunTestWithSetupBody_InsertFirst(m, S, setupFn, testFn) ==
    rtInsertedFirst(InsertFixtures(m, S), S, setupFn, testFn)

\* RunTestWithSetup between its deferral and the run of the deferred function
RunTestWithSetupBody(m, S, setupFn, testFn) ==
    rtSetupDone(IF setupFn = NilFn THEN [m |-> m, end |-> "ok"]
                ELSE RunCallback(m, "setup", m.tx, S, setupFn),
                S, testFn)

\* a rollback written as the last statement of a run instead of a deferred
\* one: it is skipped when a callback or the insertion halts the run
rtDeferred_OnReturnOnly(r, auto, closeFails) ==
    Result(IF auto /\ r.outcome = "ok" THEN RollbackTransaction(r.m, closeFails).m ELSE r.m,
           r.outcome, r.err)

\* a deferred function that commits the transaction of the run
rtDeferred_Commits(r, auto, closeFails) ==
    Result(IF auto THEN CommitTransaction(r.m, closeFails).m ELSE r.m, r.outcome, r.err)

\* the deferred function without its autoRollback test
rtDeferred_Always(r, auto, closeFails) ==
    Result(RollbackTransaction(r.m, closeFails).m, r.outcome, r.err)

\* the deferred function of RunTestWithSetup / RunTestWithCustomSetup, run when
\* the body ended as r: on return, on t.Fatalf (runtime.Goexit) and on panic
rtDeferred(r, auto, closeFails) ==
    Result(IF auto THEN RollbackTransaction(r.m, closeFails).m ELSE r.m, r.outcome, r.err)

\* RunTestWithSetup after BeginTransaction answered b
rtBegun(b, S, auto, setupFn, testFn, closeFails) ==
    IF b.err # NoErr THEN Result(b.m, "fatal", b.err)
    ELSE rtDeferred(RunTestWithSetupBody(b.m, S, setupFn, testFn), auto, closeFails)

RunTestWithSetup(m, S, auto, setupFn, testFn, beginFails, closeFails) ==
    rtBegun(BeginTransaction(m, beginFails), S, auto, setupFn, testFn, closeFails)

\* a RunTest after its Begin that calls testFn without inserting the fixtures
rtBegunBare(b, S, auto, testFn, closeFails) ==
    IF b.err # NoErr THEN Result(b.m, "fatal", b.err)
    ELSE rtDeferred(rtTested(RunCallback(b.m, "test", b.m.tx, S, testFn)), auto, closeFails)

\* a RunTest that runs as a custom-setup run does, without fixture statements
RunTest_CustomSetup(m, S, auto, testFn, beginFails, closeFails) ==
    rtBegunBare(BeginTransaction(m, beginFails), S, auto, testFn, closeFails)

RunTest(m, S, auto, testFn, beginFails, closeFails) ==
    RunTestWithSetup(m, S, auto, NilFn, testFn, beginFails, closeFails)

\* a custom-setup run that inserts the fixtures before it calls testFn
rcBegun_InsertsFirst(b, S, auto, testFn, closeFails) ==
    IF b.err # NoErr THEN Result(b.m, "fatal", b.err)
    ELSE rtDeferred(rtInserted(InsertFixtures(b.m, S), S, testFn), auto, closeFails)

\* RunTestWithCustomSetup after BeginTransaction answered b
rcBegun(b, S, auto, testFn, closeFails) ==
    IF b.err # NoErr THEN Result(b.m, "fatal", b.err)
    ELSE rtDeferred(rtTested(RunCallback(b.m, "test", b.m.tx, S, testFn)), auto, closeFails)

RunTestWithCustomSetup(m, S, auto, testFn, beginFails, closeFails) ==
    rcBegun(BeginTransaction(m, beginFails), S, auto, testFn, closeFails)

(***************************************************************************)
(* The state machine: one Fixture / TestFixture on one connection          *)
(***************************************************************************)
SetupFns ==
    { NilFn,
      Fn(<<Create(Users), Create(Posts)>>, "ok"),
      Fn(<<Create(Users)>>, "ok"),
      Fn(<<Create(Users)>>, "fail") }

TestFns ==
    { Fn(<<GetTransactionCall, Count(Users)>>, "ok"),
      Fn(<<Count(Users)>>, "fail"),
      Fn(<<>>, "panic") }

CustomFns ==
    { Fn(<<Create(Users), InsertTestDataCall, Count(Users)>>, "ok"),
      Fn(<<InsertTestDataCall>>, "fail"),
      Fn(<<Create(Users), Count(Users)>>, "ok") }

\* func() error callbacks of WithTransaction
ErrFns ==
    { Fn(<<Count(Users)>>, "ok"),
      Fn(<<>>, "fail"),
      Fn(<<>>, "panic") }

\* the documents and file names the lifecycle behaviours load
RunDocuments ==
    { ListDoc(<<U1, U2>>),
      MapDoc(<<Entry(Users, <<U1>>), Entry(Posts, <<P1>>)>>) }

RunFileNames == { <<"u", ".", "y">> }

M == [tx |-> tx, txs |-> txs, store |-> store, log |-> <<>>, iter |-> iteration]
S0 == FS(fixtures, tableOrder)

\* the transaction an operation began, 0 if it began none
BeganIn(lg) ==
    IF \E i \in DOMAIN lg : lg[i].k = "begin" /\ lg[i].ok
    THEN lg[CHOOSE i \in DOMAIN lg : lg[i].k = "begin" /\ lg[i].ok].tx
    ELSE 0

Last(op, outcome, err, lg, arg) ==
    [op |-> op, outcome |-> outcome, err |-> err, began |-> BeganIn(lg), arg |-> arg]

\* New(config): a Fixture that holds no transaction and no fixtures
New(auto) == [tx |-> 0, fixtures |-> EmptyMap, tableOrder |-> <<>>, autoRollback |-> auto]

\* history: who began each transaction of ts, the new ones being begun by who
Beginners(ts, who) ==
    [h \in DOMAIN ts |-> IF h \in DOMAIN begunBy THEN begunBy[h] ELSE who]

\* a method that also empties the fixture store it has used
Apply_DropsFixtures(op, r, arg) ==
    /\ tx' = r.m.tx
    /\ txs' = r.m.txs
    /\ store' = r.m.store
    /\ log' = r.m.log
    /\ last' = Last(op, r.outcome, r.err, r.m.log, arg)
    /\ iteration' \in Iterations
    /\ fixtures' = IF r.m.log = <<>> THEN fixtures ELSE EmptyMap
    /\ tableOrder' = IF r.m.log = <<>> THEN tableOrder ELSE <<>>
    /\ begunBy' = Beginners(r.m.txs, "self")
    /\ UNCHANGED <<autoRollback, firstSeen, peer>>

\* the fixture fields are left alone, the machine part becomes r.m
Apply(op, r, arg) ==
    /\ tx' = r.m.tx
    /\ txs' = r.m.txs
    /\ store' = r.m.store
    /\ log' = r.m.log
    /\ last' = Last(op, r.outcome, r.err, r.m.log, arg)
    /\ iteration' \in Iterations
    /\ begunBy' = Beginners(r.m.txs, "self")
    /\ UNCHANGED <<fixtures, tableOrder, autoRollback, firstSeen, peer>>

\* the result [m, err] of a Fixture method as a handler result
Returned(r) == Result(r.m, IF r.err = NoErr THEN "ok" ELSE "error", r.err)

\* the connection can still begin a transaction if the operation asks for one
CanBegin(beginFails) == tx # 0 \/ beginFails \/ Len(txs) < MaxTx

Init ==
    /\ tx = 0
    /\ tableOrder = <<>>
    /\ fixtures = EmptyMap
    /\ autoRollback \in BOOLEAN
    /\ txs = <<>>
    /\ store \in {NoTables, EmptyTables}
    /\ log = <<>>
    /\ last = [op |-> "New", outcome |-> "ok", err |-> NoErr, began |-> 0, arg |-> ""]
    /\ firstSeen = <<>>
    /\ iteration \in Iterations
    /\ peer = New(autoRollback)
    /\ begunBy = <<>>

\* a load of doc under filename ended as one of the outcomes R
Loaded(op, R, doc, filename) ==
        \E r \in R :
            /\ fixtures' = r.S.fixtures
            /\ tableOrder' = r.S.tableOrder
            /\ firstSeen' = IF r.err = "" THEN AppendNew(firstSeen, DocNames(doc, filename))
                            ELSE firstSeen
            /\ log' = <<>>
            /\ last' = Last(op, IF r.err = "" THEN "ok" ELSE "error", Err(r.err), <<>>,
                            [doc |-> doc, filename |-> filename])
            /\ UNCHANGED <<tx, autoRollback, txs, store, iteration, peer, begunBy>>

\* LoadFromFile(filename) where the file holds doc; no file has the empty path
LoadOf(doc, filename, readable) ==
    /\ readable => filename # <<>>
    /\ Loaded("LoadFromFile", LoadFromFile(S0, doc, filename, readable), doc, filename)

Load ==
    \E doc \in RunDocuments, filename \in RunFileNames : LoadOf(doc, filename, TRUE)

LoadAny ==
    \E doc \in Documents, filename \in FileNames, readable \in BOOLEAN :
        LoadOf(doc, filename, readable)

DoLoadFromYAML ==
    \E doc \in Documents :
        Loaded("LoadFromYAML", LoadFromYAML(S0, doc), doc, <<>>)

DoLoadFromYAMLWithFilename ==
    \E doc \in Documents, filename \in FileNames :
        Loaded("LoadFromYAMLWithFilename", LoadFromYAMLWithFilename(S0, doc, filename),
               doc, filename)

Begin ==
    \E fails \in BOOLEAN :
        /\ CanBegin(fails)
        /\ Apply("BeginTransaction", Returned(BeginTransaction(M, fails)), "")

Commit ==
    \E fails \in BOOLEAN :
        Apply("CommitTransaction", Returned(CommitTransaction(M, fails)), "")

Rollback ==
    \E fails \in BOOLEAN :
        Apply("RollbackTransaction", Returned(RollbackTransaction(M, fails)), "")

DoCleanUp ==
    \E fails \in BOOLEAN :
        Apply("CleanUp", Returned(CleanUp(M, autoRollback, fails)), "")

\* TearDownTest after CleanUp answered k: t.Errorf marks the test failed and returns
tearDownDone(k) == Result(k.m, IF k.err = NoErr THEN "ok" ELSE "errorf", k.err)

TearDownTest(m, auto, fails) == tearDownDone(CleanUp(m, auto, fails))

DoTearDownTest ==
    \E fails \in BOOLEAN :
        Apply("TearDownTest", TearDownTest(M, autoRollback, fails), "")

DoInsertFixtures ==
    Apply("InsertFixtures", Returned(InsertFixtures(M, S0)), "")

DoWithTransaction ==
    \E fn \in ErrFns, beginFails, closeFails \in BOOLEAN :
        /\ CanBegin(beginFails)
        /\ Apply("WithTransaction",
                 WithTransaction(M, S0, autoRollback, fn, beginFails, closeFails), fn.end)

DoRunTestWithSetup ==
    \E setupFn \in SetupFns \ {NilFn}, testFn \in TestFns, beginFails, closeFails \in BOOLEAN :
        /\ CanBegin(beginFails)
        /\ Apply("RunTestWithSetup",
                 RunTestWithSetup(M, S0, autoRollback, setupFn, testFn, beginFails, closeFails),
                 testFn.end)

DoRunTest ==
    \E testFn \in TestFns, beginFails, closeFails \in BOOLEAN :
        /\ CanBegin(beginFails)
        /\ Apply("RunTest", RunTest(M, S0, autoRollback, testFn, beginFails, closeFails),
                 testFn.end)

DoRunTestWithCustomSetup ==
    \E testFn \in CustomFns, beginFails, closeFails \in BOOLEAN :
        /\ CanBegin(beginFails)
        /\ Apply("RunTestWithCustomSetup",
                 RunTestWithCustomSetup(M, S0, autoRollback, testFn, beginFails, closeFails),
                 testFn.end)

Next ==
    \/ Load
    \/ Begin
    \/ Commit
    \/ Rollback
    \/ DoCleanUp
    \/ DoTearDownTest
    \/ DoInsertFixtures
    \/ DoWithTransaction
    \/ DoRunTestWithSetup
    \/ DoRunTest
    \/ DoRunTestWithCustomSetup

Spec == Init /\ [][Next]_vars

\* the fixture store alone, under every document and file name
NextLoad ==
    \/ LoadAny
    \/ DoLoadFromYAML
    \/ DoLoadFromYAMLWithFilename

SpecLoad == Init /\ [][NextLoad]_vars

(***************************************************************************)
(* Reading the log of the last operation                                   *)
(***************************************************************************)
(***************************************************************************)
(* The insertion engine on its own: one table per file, rows of several    *)
(* shapes, a store with and without the foreign key of posts               *)
(***************************************************************************)
UsersFile == <<"u", ".", "y">>
PostsFile == <<"p", ".", "y">>

\* the files of the insertion behaviours: [doc, filename]
InsertFiles ==
    { [doc |-> ListDoc(<<U1, U2>>), filename |-> UsersFile],
      [doc |-> ListDoc(<<U1, U4, U5>>), filename |-> UsersFile],
      [doc |-> ListDoc(<<>>), filename |-> UsersFile],
      [doc |-> ListDoc(<<P1, P2>>), filename |-> PostsFile],
      [doc |-> ListDoc(<<>>), filename |-> PostsFile] }

InitInsert ==
    /\ tx = 0
    /\ tableOrder = <<>>
    /\ fixtures = EmptyMap
    /\ autoRollback = TRUE
    /\ txs = <<>>
    /\ store \in {EmptyTables, LinkedTables}
    /\ log = <<>>
    /\ last = [op |-> "New", outcome |-> "ok", err |-> NoErr, began |-> 0, arg |-> ""]
    /\ firstSeen = <<>>
    /\ iteration \in Iterations
    /\ peer = New(autoRollback)
    /\ begunBy = <<>>

LoadTableFile == \E f \in InsertFiles : LoadOf(f.doc, f.filename, TRUE)

NextInsert ==
    \/ LoadTableFile
    \/ Begin
    \/ Rollback
    \/ DoInsertFixtures

SpecInsert == InitInsert /\ [][NextInsert]_vars

(***************************************************************************)
(* Callbacks that use everything the handle offers: a sql.Tx also has      *)
(* Commit and Rollback                                                     *)
(***************************************************************************)
ClosingFns ==
    { Fn(<<Count(Users), HandleCommit>>, "ok"),
      Fn(<<HandleRollback, Count(Users)>>, "ok") }

DoRunTestClosingHandle ==
    \E setupFn \in SetupFns \ {NilFn}, testFn \in ClosingFns, beginFails, closeFails \in BOOLEAN :
        /\ CanBegin(beginFails)
        /\ Apply("RunTestWithSetup",
                 RunTestWithSetup(M, S0, autoRollback, setupFn, testFn, beginFails, closeFails),
                 testFn.end)

NextHandle ==
    \/ Load
    \/ DoRunTestWithSetup
    \/ DoRunTestClosingHandle

SpecHandle == Init /\ [][NextHandle]_vars

(***************************************************************************)
(* The legacy passthrough methods of TestFixture                           *)
(***************************************************************************)
\* the method after its statement answered r: t.Fatalf on an error
legacyDone(r) == Result(r.m, IF r.ok THEN "ok" ELSE "fatal", NoErr)

\* an ExecInTransaction that runs its statement on the connection
ExecInTransaction_OnConnection(m, S, st) ==
    legacyDone(RunStmt(m, "legacy", 0, S, st))

\* ExecInTransaction(query, args...) for the statement st
ExecInTransaction(m, S, st) ==
    legacyDone(RunStmt(m, "legacy", getExecutor(m), S, st))

\* QueryInTransaction of SELECT COUNT on table t
QueryInTransaction(m, t) ==
    legacyDone(Counted(m, QueryCount(m, getExecutor(m), t), "legacy", getExecutor(m), t))

\* QueryRowInTransaction of SELECT COUNT on table t: the error, if any, is
\* kept in the returned row and the method never fails
QueryRowInTransaction(m, t) ==
    Result(Counted(m, QueryCount(m, getExecutor(m), t), "legacy", getExecutor(m), t).m,
           "ok", NoErr)

LegacyStmts == { Create(Users), Insert(Users, U3) }

DoExecInTransaction ==
    \E st \in LegacyStmts :
        Apply("ExecInTransaction", ExecInTransaction(M, S0, st), st.k)

DoQueryInTransaction ==
    \E t \in {Users, Posts} :
        Apply("QueryInTransaction", QueryInTransaction(M, t), "count")

DoQueryRowInTransaction ==
    \E t \in {Users, Posts} :
        Apply("QueryRowInTransaction", QueryRowInTransaction(M, t), "count")

NextLegacy ==
    \/ Begin
    \/ Commit
    \/ Rollback
    \/ DoExecInTransaction
    \/ DoQueryInTransaction
    \/ DoQueryRowInTransaction

SpecLegacy == Init /\ [][NextLegacy]_vars

(***************************************************************************)
(* Loading several files: SetupTest and LoadFromDirectory                  *)
(* A file is [path, doc, readable]; a call answers [S, err, log], the log  *)
(* listing the files it went through.                                      *)
(***************************************************************************)
MaxPaths == 3

YmlExt == <<".", "y", "m", "l">>
YamlExt == <<".", "y", "a", "m", "l">>

\* strings.HasSuffix
HasSuffix(s, suffix) ==
    Len(suffix) <= Len(s) /\ SubSeq(s, Len(s) - Len(suffix) + 1, Len(s)) = suffix

File(path, doc, readable) == [path |-> path, doc |-> doc, readable |-> readable]

\* u.yml, d/p.yaml, m.yml (two tables), b.yml (not a fixture document),
\* .yml (no table name), x.yml (unreadable)
UsersYml == File(<<"u">> \o YmlExt, ListDoc(<<U1, U2>>), TRUE)
PostsYaml == File(<<"d", "/", "p">> \o YamlExt, ListDoc(<<P1>>), TRUE)
BothYml == File(<<"m">> \o YmlExt, MapDoc(<<Entry(Users, <<U3>>), Entry(Posts, <<P2>>)>>), TRUE)
BadYml == File(<<"b">> \o YmlExt, BadDoc, TRUE)
BareYml == File(YmlExt, ListDoc(<<U1>>), TRUE)
LostYml == File(<<"x">> \o YmlExt, ListDoc(<<U1>>), FALSE)

\* the files SetupTest is handed
SetupFiles == { UsersYml, PostsYaml, BadYml }

\* the argument lists of SetupTest
PathLists == UNION { [1..n -> SetupFiles] : n \in 1..MaxPaths }

Loads(S, err, lg) == [S |-> S, err |-> err, log |-> lg]

\* a SetupTest that goes on to the next path after a failed load and fails at the end
pathLoaded_ContinuesOnError(r, lg, rest) ==
    { Loads(q.S, IF r.err # "" THEN r.err ELSE q.err, q.log) : q \in rest }

\* the loop of SetupTest after LoadFromFile(yamlPaths[i]) answered r: t.Fatalf ends it
pathLoaded(r, lg, rest) ==
    IF r.err # "" THEN { Loads(r.S, r.err, lg) } ELSE rest

RECURSIVE loadPaths(_, _, _, _)
loadPaths(S, lg, yamlPaths, i) ==
    IF i > Len(yamlPaths) THEN { Loads(S, "", lg) }
    ELSE UNION { pathLoaded(r,
                            Append(lg, Ev("load", "SetupTest", 0, yamlPaths[i].path, i,
                                          r.err = "")),
                            loadPaths(r.S,
                                      Append(lg, Ev("load", "SetupTest", 0, yamlPaths[i].path, i,
                                                    r.err = "")),
                                      yamlPaths, i + 1)) :
                    r \in LoadFromFile(S, yamlPaths[i].doc, yamlPaths[i].path,
                                       yamlPaths[i].readable) }

SetupTest(S, yamlPaths) == loadPaths(S, <<>>, yamlPaths, 1)

\* what filepath.Walk hands to its callback: err is the error of Lstat or of
\* reading the directory
Visit(path, isDir, err, doc, readable) ==
    [path |-> path, isDir |-> isDir, err |-> err, doc |-> doc, readable |-> readable]

Dir(path) == Visit(path, TRUE, FALSE, NullDoc, FALSE)
In(d, f) == Visit(d \o <<Slash>> \o Base(f.path), FALSE, FALSE, f.doc, f.readable)

\* the callbacks of a walk in lexical order, as long as each one returns nil
Directories ==
    { \* two files of two tables, one below a subdirectory, and a file that is not YAML
      <<Dir(<<"d">>),
        Visit(<<"d", "/", "a", ".", "t">>, FALSE, FALSE, BadDoc, TRUE),
        In(<<"d">>, PostsYaml),
        Dir(<<"d", "/", "s">>),
        In(<<"d", "/", "s">>, UsersYml)>>,
      \* the first file is not a fixture document
      <<Dir(<<"d">>), In(<<"d">>, BadYml), In(<<"d">>, UsersYml)>>,
      \* the third file cannot be read
      <<Dir(<<"d">>), In(<<"d">>, BothYml), In(<<"d">>, PostsYaml), Dir(<<"d", "/", "s">>),
        In(<<"d", "/", "s">>, LostYml), In(<<"d">>, UsersYml)>>,
      \* a file without a base name after its table
      <<Dir(<<"d">>), In(<<"d">>, BareYml), In(<<"d">>, UsersYml)>>,
      \* a directory named like a YAML file, and an entry Lstat fails on
      <<Dir(<<"d">>), Dir(<<"d", "/", "k">> \o YmlExt), In(<<"d">>, UsersYml),
        Visit(<<"d", "/", "z">>, FALSE, TRUE, NullDoc, FALSE), Dir(<<"d", "/", "z", "z">>),
        In(<<"d", "/", "z", "z">>, PostsYaml)>>,
      \* the root does not exist
      <<Visit(<<"e">>, FALSE, TRUE, NullDoc, FALSE)>> }

\* what the callback does with a visit
Does(v) ==
    IF v.err THEN "walkerr"
    ELSE IF ~v.isDir /\ (HasSuffix(v.path, YmlExt) \/ HasSuffix(v.path, YamlExt)) THEN "load"
    ELSE "skip"

\* the callback of LoadFromDirectory: the outcomes [err, S] of one call
walkFn(S, v) ==
    IF v.err THEN { [err |-> "walk", S |-> S] }
    ELSE IF ~v.isDir /\ (HasSuffix(v.path, YmlExt) \/ HasSuffix(v.path, YamlExt))
         THEN LoadFromFile(S, v.doc, v.path, v.readable)
         ELSE { [err |-> "", S |-> S] }

\* filepath.Walk after the callback answered r: a non-nil error ends the walk
visited(r, lg, rest) ==
    IF r.err # "" THEN { Loads(r.S, r.err, lg) } ELSE rest

RECURSIVE walk(_, _, _, _)
walk(S, lg, visits, i) ==
    IF i > Len(visits) THEN { Loads(S, "", lg) }
    ELSE UNION { visited(r,
                         Append(lg, Ev(Does(visits[i]), "LoadFromDirectory", 0, visits[i].path, i,
                                       r.err = "")),
                         walk(r.S,
                              Append(lg, Ev(Does(visits[i]), "LoadFromDirectory", 0,
                                            visits[i].path, i, r.err = "")),
                              visits, i + 1)) :
                    r \in walkFn(S, visits[i]) }

LoadFromDirectory(S, visits) == walk(S, <<>>, visits, 1)

\* history: the first-seen list after the files the log lists as loaded
RECURSIVE SeenAfter(_, _, _, _)
SeenAfter(seen, lg, files, j) ==
    IF j > Len(lg) THEN seen
    ELSE SeenAfter(IF lg[j].k = "load" /\ lg[j].ok
                   THEN AppendNew(seen, DocNames(files[lg[j].n].doc, files[lg[j].n].path))
                   ELSE seen,
                   lg, files, j + 1)

\* a call over several files ended as one of the outcomes R; failure is the
\* outcome a failed call has (t.Fatalf or a returned error)
LoadedAll(op, R, files, failure) ==
    \E r \in R :
        /\ fixtures' = r.S.fixtures
        /\ tableOrder' = r.S.tableOrder
        /\ firstSeen' = SeenAfter(firstSeen, r.log, files, 1)
        /\ log' = r.log
        /\ last' = Last(op, IF r.err = "" THEN "ok" ELSE failure, Err(r.err), <<>>, files)
        /\ UNCHANGED <<tx, autoRollback, txs, store, iteration, peer, begunBy>>

DoSetupTest ==
    \E yamlPaths \in PathLists :
        LoadedAll("SetupTest", SetupTest(S0, yamlPaths), yamlPaths, "fatal")

DoLoadFromDirectory ==
    \E visits \in Directories :
        LoadedAll("LoadFromDirectory", LoadFromDirectory(S0, visits), visits, "error")

NextSetup ==
    \/ DoSetupTest
    \/ DoLoadFromDirectory

\* NewTestFixture: auto-rollback mode, nothing loaded, no transaction; loading
\* never touches the database, which here has no tables
InitSetup ==
    /\ tx = 0
    /\ tableOrder = <<>>
    /\ fixtures = EmptyMap
    /\ autoRollback = TRUE
    /\ txs = <<>>
    /\ store = NoTables
    /\ log = <<>>
    /\ last = [op |-> "New", outcome |-> "ok", err |-> NoErr, began |-> 0, arg |-> ""]
    /\ firstSeen = <<>>
    /\ iteration \in Iterations
    /\ peer = New(autoRollback)
    /\ begunBy = <<>>

SpecSetup == InitSetup /\ [][NextSetup]_vars

(***************************************************************************)
(* Two Fixtures on one connection, their lifecycle steps interleaved       *)
(***************************************************************************)
Instances == {"self", "peer"}

StoreOf(who) == IF who = "self" THEN S0 ELSE FS(peer.fixtures, peer.tableOrder)
ModeOf(who) == IF who = "self" THEN autoRollback ELSE peer.autoRollback

\* a handle kept in one place for every Fixture instead of in a field of each
MachineOf_SharedHandle(who) == M

\* the machine a method of Fixture who runs on: its own f.tx, the shared f.db
MachineOf(who) == IF who = "self" THEN M ELSE [M EXCEPT !.tx = peer.tx]

\* a method of Fixture who ended as r: f.tx of who and the connection change
ApplyTo(who, op, r) ==
    /\ tx' = IF who = "self" THEN r.m.tx ELSE tx
    /\ peer' = IF who = "peer" THEN [peer EXCEPT !.tx = r.m.tx] ELSE peer
    /\ txs' = r.m.txs
    /\ store' = r.m.store
    /\ log' = r.m.log
    /\ last' = Last(op, r.outcome, r.err, r.m.log, who)
    /\ iteration' \in Iterations
    /\ begunBy' = Beginners(r.m.txs, who)
    /\ UNCHANGED <<fixtures, tableOrder, autoRollback, firstSeen>>

\* each test has built its own Fixture on the shared connection and loaded its
\* own users file; the tables exist
InitPair ==
    /\ tx = 0
    /\ tableOrder = <<Users>>
    /\ fixtures = MapPut(EmptyMap, Users, <<U1>>)
    /\ autoRollback \in BOOLEAN
    /\ txs = <<>>
    /\ store = EmptyTables
    /\ log = <<>>
    /\ last = [op |-> "New", outcome |-> "ok", err |-> NoErr, began |-> 0, arg |-> ""]
    /\ firstSeen = <<Users>>
    /\ iteration \in Iterations
    /\ \E auto \in BOOLEAN :
          peer = [New(auto) EXCEPT !.fixtures = MapPut(EmptyMap, Users, <<U2>>),
                                   !.tableOrder = <<Users>>]
    /\ begunBy = <<>>

PairBegin ==
    \E who \in Instances, fails \in BOOLEAN :
        /\ MachineOf(who).tx # 0 \/ fails \/ Len(txs) < MaxTx
        /\ ApplyTo(who, "BeginTransaction", Returned(BeginTransaction(MachineOf(who), fails)))

PairCommit ==
    \E who \in Instances, fails \in BOOLEAN :
        ApplyTo(who, "CommitTransaction", Returned(CommitTransaction(MachineOf(who), fails)))

PairRollback ==
    \E who \in Instances, fails \in BOOLEAN :
        ApplyTo(who, "RollbackTransaction", Returned(RollbackTransaction(MachineOf(who), fails)))

PairCleanUp ==
    \E who \in Instances, fails \in BOOLEAN :
        ApplyTo(who, "CleanUp", Returned(CleanUp(MachineOf(who), ModeOf(who), fails)))

PairInsertFixtures ==
    \E who \in Instances :
        ApplyTo(who, "InsertFixtures", Returned(InsertFixtures(MachineOf(who), StoreOf(who))))

NextPair ==
    \/ PairBegin
    \/ PairCommit
    \/ PairRollback
    \/ PairCleanUp
    \/ PairInsertFixtures

SpecPair == InitPair /\ [][NextPair]_vars

(***************************************************************************)
(* Name hints: the first load of a Fixture under every short hint          *)
(***************************************************************************)
MaxHint == 4

\* every string of at most MaxHint characters out of a letter, the dot and the separator
Hints == UNION { [1..n -> {"u", Dot, Slash}] : n \in 0..MaxHint }

\* LoadFromYAMLWithFilename(data, hint) on a Fixture that holds no table yet
LoadHint ==
    \E doc \in RunDocuments, filename \in Hints :
        /\ fixtures = EmptyMap
        /\ Loaded("LoadFromYAMLWithFilename", LoadFromYAMLWithFilename(S0, doc, filename),
                  doc, filename)

NextHint ==
    \/ LoadHint

SpecHint == Init /\ [][NextHint]_vars

At(k) == { i \in DOMAIN log : log[i].k = k }
By(by) == { i \in DOMAIN log : log[i].by = by }

\* calls of Commit / Rollback the fixture made on transaction h
Closes(h) == { i \in DOMAIN log : log[i].k \in {"commit", "rollback"} /\ log[i].tx = h }
\* those that closed it
Closed(k, h) == { i \in At(k) : log[i].tx = h /\ log[i].n = 1 }

OpenTxs == { h \in DOMAIN txs : txs[h].state = "open" }

RunOps == {"RunTestWithSetup", "RunTest"}
LifecycleOps == {"WithTransaction", "RunTestWithSetup", "RunTest", "RunTestWithCustomSetup"}

\* the last operation was one of ops and its Begin succeeded
Ran(ops) == last.op \in ops /\ last.began # 0

RowsOf(t) == IF t \in DOMAIN fixtures THEN Len(fixtures[t]) ELSE 0

RECURSIVE SumRows(_)
SumRows(ts) ==
    IF ts = {} THEN 0
    ELSE LET t == CHOOSE t \in ts : TRUE IN RowsOf(t) + SumRows(ts \ {t})

(***************************************************************************)
(* Claims                                                                  *)
(***************************************************************************)

\* C1: in auto-cleanup mode, once the Begin of RunTestWithSetup has succeeded the
\* transaction it began is rolled back (exactly one Rollback closes it, no Commit
\* is issued) on every path - normal return, halting failure in setupFn, failed
\* fixture insertion, halting failure or panic in testFn - and the executor is
\* Idle when the run ends.
C1_AutoCleanupAlwaysRollsBack ==
    (Ran(RunOps) /\ autoRollback) =>
        /\ tx = 0
        /\ last.began \notin OpenTxs
        /\ Cardinality(Closed("rollback", last.began)) = 1
        /\ At("commit") = {}

\* C1 witness: a run whose testFn panicked, rolled back by the deferred function
C1_Witness ==
    /\ Ran({"RunTestWithSetup"})
    /\ autoRollback
    /\ last.outcome = "panic"
    /\ Closed("rollback", last.began) # {}
    /\ tx = 0

\* the counts a test body of the last run read from table t, when the setup
\* callback of the same run created t
CountsAfterSetupCreate(t) ==
    { log[i].n : i \in { i \in At("count") : /\ log[i].by = "test"
                                             /\ log[i].t = t
                                             /\ \E j \in At("create") :
                                                    /\ j < i
                                                    /\ log[j].by = "setup"
                                                    /\ log[j].t = t
                                                    /\ log[j].ok } }

\* C2: when setupFn creates the table, the test body of the run counts exactly
\* the fixture rows of that table; and an auto-cleanup run leaves the committed
\* content of the database (tables and rows) as it was before the run.
C2_FixturesSeenThenGone ==
    [][ (last'.op \in RunOps /\ autoRollback) =>
            /\ store' = store
            /\ \A t \in {Users, Posts} : CountsAfterSetupCreate(t)' \subseteq {RowsOf(t)} ]_vars

\* C2 witness: a run over a users table of 2 fixture rows whose test body counted
\* 2 rows, and afterwards the users table does not exist outside the transaction
C2_Witness ==
    /\ Ran({"RunTestWithSetup"})
    /\ autoRollback
    /\ last.outcome = "ok"
    /\ RowsOf(Users) = 2
    /\ CountsAfterSetupCreate(Users) = {2}
    /\ Users \notin DOMAIN store

\* C3: a run goes Begin, setupFn (skipped when nil), insertion of all fixtures,
\* testFn: the first event is the Begin, every statement of setupFn precedes
\* every fixture insert, every fixture insert precedes the first step of testFn,
\* testFn starts only after every fixture row was inserted, and RunTest (nil
\* setupFn) has no setup step.
C3_PhaseOrder ==
    (last.op \in RunOps /\ log # <<>>) =>
        /\ log[1].k = "begin"
        /\ At("begin") = {1}
        /\ \A i \in By("setup") : \A j \in At("fixture") \cup By("test") : i < j
        /\ \A i \in At("fixture") : \A j \in By("test") : i < j
        /\ By("test") # {} =>
              /\ \A i \in At("fixture") : log[i].ok
              /\ Cardinality(At("fixture")) = SumRows(DOMAIN fixtures)
        /\ last.op = "RunTest" => By("setup") = {}
        /\ (last.op = "RunTestWithSetup" /\ last.began # 0) => By("setup") # {}

\* C3 witness: a run with setup statements, fixture inserts and a test body
C3_Witness ==
    /\ Ran({"RunTestWithSetup"})
    /\ At("create") \cap By("setup") # {}
    /\ Cardinality(At("fixture")) >= 2
    /\ At("count") \cap By("test") # {}

InsOk == \A i \in At("fixture") : log[i].ok
\* the callback of WithTransaction was called and returned nil
FnOk == \E i \in At("exit") \cap By("fn") : log[i].ok

\* C5: WithTransaction whose Begin succeeded returns with the executor Idle; in
\* non-auto mode the transaction is committed iff insertion and fn both returned
\* no error and rolled back otherwise; in auto mode it is rolled back on every
\* path and never committed.
C5_WithTransactionCloses ==
    Ran({"WithTransaction"}) =>
        /\ last.outcome # "panic" => (tx = 0 /\ last.began \notin OpenTxs)
        /\ (~autoRollback /\ last.outcome # "panic") =>
              /\ Closed("commit", last.began) # {} <=> (InsOk /\ FnOk)
              /\ Closed("rollback", last.began) # {} <=> ~(InsOk /\ FnOk)
        /\ autoRollback =>
              /\ tx = 0
              /\ Closed("rollback", last.began) # {}
              /\ At("commit") = {}

\* C5 witness: a non-auto WithTransaction that inserted rows, ran fn and committed
C5_Witness ==
    /\ Ran({"WithTransaction"})
    /\ ~autoRollback
    /\ At("fixture") # {}
    /\ FnOk
    /\ Closed("commit", last.began) # {}
    /\ tx = 0

\* C6: at most one transaction begun by the fixture is open at any time, and an
\* open one is the one the fixture holds.
C6_AtMostOneOpen ==
    /\ Cardinality(OpenTxs) <= 1
    /\ OpenTxs \subseteq {tx}

\* C6 witness: a second transaction is open after the first one was closed
C6_Witness ==
    /\ Len(txs) >= 2
    /\ OpenTxs = {Len(txs)}
    /\ tx = Len(txs)

\* C7: BeginTransaction while a transaction is held fails with the already-active
\* error, does not ask the connection for a transaction, and leaves the held
\* handle, its openness and its content as they were.
C7_BeginWhileActive ==
    [][ (last'.op = "BeginTransaction" /\ tx # 0) =>
            /\ last'.err = Err("already")
            /\ tx' = tx
            /\ txs' = txs
            /\ store' = store
            /\ log' = <<>> ]_vars

\* C7 witness: a rejected second Begin, the earlier transaction still open
C7_Witness ==
    /\ last.op = "BeginTransaction"
    /\ last.err = Err("already")
    /\ tx \in OpenTxs

\* C8: CommitTransaction and RollbackTransaction while Idle return the
\* no-active-scope error, make no call on any transaction and leave the
\* executor Idle.
C8_CloseWhileIdle ==
    [][ (last'.op \in {"CommitTransaction", "RollbackTransaction"} /\ tx = 0) =>
            /\ last'.err = Err("noactive")
            /\ last'.outcome = "error"
            /\ tx' = 0
            /\ txs' = txs
            /\ store' = store
            /\ log' = <<>> ]_vars

\* C8 witness: a Rollback repeated after the transaction was closed
C8_Witness ==
    /\ last.op = "RollbackTransaction"
    /\ last.err = Err("noactive")
    /\ Len(txs) >= 1
    /\ OpenTxs = {}
    /\ tx = 0

ClosingPath == autoRollback \/ (last.op = "WithTransaction" /\ last.outcome # "panic")

C10_FirstAppearanceOrder == tableOrder = firstSeen

(***************************************************************************)
(* Claims on the fixture store                                             *)
(***************************************************************************)
LoadOps == {"LoadFromFile", "LoadFromYAML", "LoadFromYAMLWithFilename"}

\* the table name each file name stands for
HintName(filename) ==
    IF filename = <<"u", ".", "y">> THEN Users
    ELSE IF filename = <<"d", "/", "p", ".", "y">> THEN Posts
    ELSE NoName

\* the tables a document carries: table name -> rows
TablesOf(doc, filename) ==
    IF doc.shape = "map"
    THEN [n \in { doc.entries[i].name : i \in DOMAIN doc.entries } |->
             doc.entries[CHOOSE i \in DOMAIN doc.entries : doc.entries[i].name = n].rows]
    ELSE [n \in {HintName(filename)} |-> doc.rows]

\* positions of name n in the sequence s
Positions(s, n) == { i \in DOMAIN s : s[i] = n }

\* C11: a successful load sets the row set of every table it carries to the
\* loaded rows (replacing, not appending), leaves the rows of every other table
\* as they were, keeps the table order it found as a prefix (so a name already
\* listed keeps its position) and appends exactly the new names at the end.
C11_MergeReplacesRows ==
    [][ (last'.op \in LoadOps /\ last'.outcome = "ok") =>
            LET T == TablesOf(last'.arg.doc, last'.arg.filename)
            IN /\ DOMAIN fixtures' = DOMAIN fixtures \cup DOMAIN T
               /\ \A n \in DOMAIN T : fixtures'[n] = T[n]
               /\ \A n \in DOMAIN fixtures \ DOMAIN T : fixtures'[n] = fixtures[n]
               /\ Len(tableOrder') = Len(tableOrder) + Cardinality(DOMAIN T \ Range(tableOrder))
               /\ SubSeq(tableOrder', 1, Len(tableOrder)) = tableOrder
               /\ Range(tableOrder') = Range(tableOrder) \cup DOMAIN T ]_vars

\* C11 witness: users, listed before posts, was loaded again under its file name
\* with one other row: it holds that row alone and is still first
C11_Witness ==
    /\ last.op = "LoadFromFile"
    /\ last.outcome = "ok"
    /\ last.arg.doc = ListDoc(<<P1>>)
    /\ last.arg.filename = <<"u", ".", "y">>
    /\ tableOrder = <<Users, Posts>>
    /\ fixtures[Users] = <<P1>>
    /\ fixtures[Posts] = <<P1>>

\* C12: a load of a readable non-empty mapping succeeds under every file name
\* and leaves one table per key, holding the rows of that key and listed once;
\* a load of a bare list succeeds exactly when the file name yields a non-empty
\* table name, then registers the rows under that name, and otherwise - always
\* for LoadFromYAML - fails with the name-inference error.
C12_ShapePolicy ==
    (last.op \in LoadOps /\ last.err # Err("read")) =>
        /\ (last.arg.doc.shape = "map" /\ last.arg.doc.entries # <<>>) =>
              /\ last.outcome = "ok"
              /\ \A i \in DOMAIN last.arg.doc.entries :
                    /\ last.arg.doc.entries[i].name \in DOMAIN fixtures
                    /\ fixtures[last.arg.doc.entries[i].name] = last.arg.doc.entries[i].rows
                    /\ Cardinality(Positions(tableOrder, last.arg.doc.entries[i].name)) = 1
        /\ last.arg.doc.shape = "list" =>
              IF HintName(last.arg.filename) # NoName
              THEN /\ last.outcome = "ok"
                   /\ HintName(last.arg.filename) \in DOMAIN fixtures
                   /\ fixtures[HintName(last.arg.filename)] = last.arg.doc.rows
                   /\ Cardinality(Positions(tableOrder, HintName(last.arg.filename))) = 1
                   /\ last.op # "LoadFromYAML"
              ELSE /\ last.outcome = "error"
                   /\ last.err = Err("noname")

\* C12 witness: a bare list handed to LoadFromYAML was refused for want of a name
\* after a mapping had registered a table per key
C12_Witness ==
    /\ last.op = "LoadFromYAML"
    /\ last.arg.doc = ListDoc(<<U1, U2>>)
    /\ last.err = Err("noname")
    /\ DOMAIN fixtures = {Users, Posts}

\* the error a load must end with, "" when it must succeed
ExpectedLoadError(doc, filename) ==
    IF doc.shape = "map" /\ doc.entries # <<>> THEN ""
    ELSE IF doc.shape = "bad" \/ doc.shape = "map" THEN "parse"
    ELSE IF HintName(filename) = NoName THEN "noname"
    ELSE ""

\* C13: a load that returns an error - unreadable file, a document of neither
\* shape, a bare list without a table name - leaves the rows of every table and
\* the table order as they were, and the error is the one of its cause.
C13_FailedLoadChangesNothing ==
    [][ (last'.op \in LoadOps /\ last'.outcome = "error") =>
            /\ fixtures' = fixtures
            /\ tableOrder' = tableOrder
            /\ last'.err.e \in {"read", "parse", "noname"}
            /\ last'.err.e # "read" =>
                  last'.err.e = ExpectedLoadError(last'.arg.doc, last'.arg.filename) ]_vars

\* C13 witness: a bare list without a name was refused while the store held tables
C13_Witness ==
    /\ last.op \in LoadOps
    /\ last.err = Err("noname")
    /\ last.arg.doc.shape = "list"
    /\ tableOrder # <<>>
    /\ NoName \notin DOMAIN fixtures

(***************************************************************************)
(* Claims on the insertion engine                                          *)
(***************************************************************************)
\* what a statement run through the fixture's executor reads now
ViewNow == IF tx = 0 THEN store ELSE txs[tx].view

\* the executions <<table, row index>> a complete insertion makes
RECURSIVE ExpectedExecs(_)
ExpectedExecs(order) ==
    IF order = <<>> THEN <<>>
    ELSE [i \in 1..RowsOf(Head(order)) |-> <<Head(order), i>>] \o ExpectedExecs(Tail(order))

\* the executions the last operation made
Execs == [i \in DOMAIN log |-> <<log[i].t, log[i].n>>]

\* C14: a successful InsertFixtures executes, table by table in table order and
\* row by row in row order, one statement execution per row and none for a
\* table without rows; the executions of one table are contiguous, use one
\* column list, and their total is the number of rows in the store.
C14_TableThenRowOrder ==
    (last.op = "InsertFixtures" /\ last.outcome = "ok") =>
        /\ Execs = ExpectedExecs(tableOrder)
        /\ Len(log) = SumRows(DOMAIN fixtures)
        /\ \A i \in DOMAIN log : log[i].k = "fixture" /\ log[i].ok
        /\ \A i, j \in DOMAIN log : log[i].t = log[j].t => log[i].cols = log[j].cols

\* C14 witness: users with 2 rows then posts with 2 rows: 2 executions on users
\* followed by 2 on posts
C14_Witness ==
    /\ last.op = "InsertFixtures"
    /\ last.outcome = "ok"
    /\ tableOrder = <<Users, Posts>>
    /\ Execs = << <<Users, 1>>, <<Users, 2>>, <<Posts, 1>>, <<Posts, 2>> >>

\* C15: an InsertFixtures that fails returns the insertion error naming the
\* table of the failing row; the failing execution is the last one, the
\* executions before it are the complete insertion up to that row and their
\* rows are still in place; no transaction is begun, committed or rolled back
\* and the held handle is unchanged.
C15_StopsAtFirstError ==
    [][ (last'.op = "InsertFixtures" /\ last'.outcome = "error") =>
            /\ log' # <<>>
            /\ last'.err = [e |-> "insert", t |-> log'[Len(log')].t]
            /\ \A i \in DOMAIN log' : log'[i].k = "fixture" /\ (log'[i].ok <=> i < Len(log'))
            /\ Len(log') <= Len(ExpectedExecs(tableOrder))
            /\ Execs' = SubSeq(ExpectedExecs(tableOrder), 1, Len(log'))
            /\ \A i \in 1..(Len(log') - 1) :
                  Bind(log'[i].cols, log'[i].vals) \in ViewNow'[log'[i].t]
            /\ tx' = tx
            /\ Len(txs') = Len(txs)
            /\ \A h \in DOMAIN txs : txs'[h].state = txs[h].state
            /\ tx # 0 => store' = store ]_vars

\* C15 witness: inside a transaction the second posts row failed after both
\* users rows and the first posts row; the transaction is still open
C15_Witness ==
    /\ last.op = "InsertFixtures"
    /\ last.err = [e |-> "insert", t |-> Posts]
    /\ Execs = << <<Users, 1>>, <<Users, 2>>, <<Users, 3>>, <<Posts, 1>>, <<Posts, 2>> >>
    /\ tx \in OpenTxs
    /\ P1 \in ViewNow[Posts]

\* every posts fixture row refers to a users fixture row
FixturesLinked ==
    /\ DOMAIN fixtures = {Users, Posts}
    /\ fixtures[Users] # <<>>
    /\ fixtures[Posts] # <<>>
    /\ \A i \in DOMAIN fixtures[Posts] :
          \E j \in DOMAIN fixtures[Users] : fixtures[Users][j].id = fixtures[Posts][i].user_id

\* C16: on empty users and posts tables with the foreign key enforced and
\* fixtures in which every posts row refers to a users row: users loaded before
\* posts - the insertion succeeds and every row of both tables is stored; posts
\* loaded before users - the insertion fails with the insertion error naming
\* posts on the first posts row, and no users row is executed.
C16_ForeignKeyOrder ==
    [][ (/\ last'.op = "InsertFixtures"
         /\ FixturesLinked
         /\ PostsUserFk \in DOMAIN ViewNow
         /\ ViewNow[Users] = {}
         /\ ViewNow[Posts] = {}) =>
            /\ firstSeen = <<Users, Posts>> =>
                  /\ last'.outcome = "ok"
                  /\ \A t \in {Users, Posts} :
                        Cardinality(ViewNow'[t]) = RowsOf(t)
            /\ firstSeen = <<Posts, Users>> =>
                  /\ last'.err = [e |-> "insert", t |-> Posts]
                  /\ Execs' = << <<Posts, 1>> >>
                  /\ ~log'[1].ok
                  /\ ViewNow'[Users] = {} ]_vars

\* C16 witness: posts was loaded before users and the insertion stopped on the
\* first posts row under the enforced foreign key
C16_Witness ==
    /\ last.op = "InsertFixtures"
    /\ firstSeen = <<Posts, Users>>
    /\ FixturesLinked
    /\ PostsUserFk \in DOMAIN store
    /\ last.err = [e |-> "insert", t |-> Posts]
    /\ Execs = << <<Posts, 1>> >>

\* the executions of fixture rows in the log
FixtureExecs == { i \in DOMAIN log : log[i].k = "fixture" }

\* C17: every execution of a table's insert statement lists exactly the columns
\* of the table's first row, each once; its k-th parameter is the row's value
\* for the k-th listed column, null when the row lacks the column; a column the
\* first row lacks is not listed, so a later row's value under it is not sent
\* and the stored row does not have it.
C17_ColumnsOfFirstRow ==
    \A i \in FixtureExecs :
        LET first == fixtures[log[i].t][1]
            rec == fixtures[log[i].t][log[i].n]
            cols == log[i].cols
            vals == log[i].vals
        IN /\ Range(cols) = DOMAIN first
           /\ Len(cols) = Cardinality(DOMAIN first)
           /\ DOMAIN vals = DOMAIN cols
           /\ \A k \in DOMAIN cols :
                 vals[k] = IF cols[k] \in DOMAIN rec THEN rec[cols[k]] ELSE Null
           /\ \A c \in DOMAIN rec \ DOMAIN first : c \notin Range(cols)
           /\ log[i].ok =>
                 \E row \in ViewNow[log[i].t] :
                     /\ DOMAIN row = DOMAIN first
                     /\ \A c \in DOMAIN first :
                           row[c] = IF c \in DOMAIN rec THEN rec[c] ELSE Null

\* C17 witness: users rows with columns (id, name), (id) and (id, name, email)
\* were inserted under the list (name, id): the second sent null for name, the
\* third no email
C17_Witness ==
    /\ last.op = "InsertFixtures"
    /\ last.outcome = "ok"
    /\ Users \in DOMAIN fixtures
    /\ fixtures[Users] = <<U1, U4, U5>>
    /\ log[1].cols = <<"name", "id">>
    /\ log[2].vals = <<Null, 4>>
    /\ log[3].vals = <<15, 5>>
    /\ [id |-> 5, name |-> 15] \in ViewNow[Users]

(***************************************************************************)
(* Claims on the lifecycle and the handle                                  *)
(***************************************************************************)
\* calls of InsertTestData a callback of the last operation made
InsertCalls == { i \in DOMAIN log : log[i].k = "InsertTestData" }

\* C18: RunTestWithCustomSetup calls testFn with the handle of the transaction
\* it began right after the Begin, inserting nothing itself: every fixture
\* execution of the run follows a call of InsertTestData made inside testFn,
\* lies before the end of testFn and runs on the transaction of the run; a
\* test body without such a call sees no fixture row; in auto-cleanup mode the
\* run ends with that transaction rolled back and the executor Idle.
C18_CustomSetupInsertsNothing ==
    Ran({"RunTestWithCustomSetup"}) =>
        /\ log[1].k = "begin"
        /\ log[2].k = "enter" /\ log[2].by = "test" /\ log[2].tx = last.began
        /\ \A i \in FixtureExecs :
              /\ \E j \in InsertCalls : j < i /\ log[j].by = "test" /\ 2 < j
              /\ \A e \in At("exit") : i < e
              /\ log[i].tx = last.began
        /\ InsertCalls = {} =>
              \A i \in At("count") : log[i].t = Users => log[i].n \in {0, Null}
        /\ autoRollback =>
              /\ Cardinality(Closed("rollback", last.began)) = 1
              /\ \A c \in Closes(last.began) : \A e \in At("exit") : e < c
              /\ At("commit") = {}
              /\ tx = 0
              /\ last.began \notin OpenTxs

\* C18 witness: an auto-cleanup run whose test body created the table, called
\* InsertTestData, counted the fixture rows, and was rolled back
C18_Witness ==
    /\ Ran({"RunTestWithCustomSetup"})
    /\ autoRollback
    /\ InsertCalls # {}
    /\ FixtureExecs # {}
    /\ \E i \in At("count") : log[i].n = RowsOf(Users) /\ log[i].n > 0
    /\ Closed("rollback", last.began) # {}

\* C19: in a run of RunTestWithSetup / RunTest whose Begin succeeded every
\* step - the statements of setupFn, every fixture execution, the statements of
\* testFn, the closing call - is made on the transaction that Begin opened, and
\* GetTransaction() called inside a callback returns that transaction; the test
\* body counts the fixture rows in a table that setupFn created.
C19_OneHandlePerRun ==
    Ran(RunOps) =>
        /\ \A i \in DOMAIN log : log[i].tx = last.began
        /\ Cardinality({ log[i].tx : i \in By("setup") \cup By("fixture") \cup By("test") }) <= 1
        /\ \A i \in At("GetTransaction") : log[i].ok /\ log[i].tx = last.began
        /\ \A t \in {Users, Posts} : CountsAfterSetupCreate(t) \subseteq {RowsOf(t)}

\* C19 witness: setupFn, two fixture executions and testFn ran on the handle
\* of the run, GetTransaction returned it, and testFn counted the two rows
C19_Witness ==
    /\ Ran({"RunTestWithSetup"})
    /\ By("setup") # {}
    /\ Cardinality(FixtureExecs) >= 2
    /\ \E i \in At("GetTransaction") : log[i].by = "test" /\ log[i].tx = last.began
    /\ CountsAfterSetupCreate(Users) = {2}

\* C20 as claimed: in an auto-cleanup run no Commit or Rollback issued by a
\* callback closes the transaction of the run - the only call that closes it is
\* the rollback of the finalizer - and the committed content of the database
\* after the run is what it was before.
C20_SoleAuthority ==
    [][ (last'.op \in RunOps /\ last'.began # 0 /\ autoRollback) =>
            /\ \A i \in DOMAIN log' :
                  (log'[i].k \in {"commit", "rollback"} /\ log'[i].n = 1) =>
                      log'[i].by = "fixture"
            /\ \E i \in DOMAIN log' :
                  /\ log'[i].k = "rollback"
                  /\ log'[i].by = "fixture"
                  /\ log'[i].tx = last'.began
                  /\ log'[i].n = 1
            /\ store' = store ]_vars

(***************************************************************************)
(* Claims on the executor states and the finalizers                        *)
(***************************************************************************)
\* C21 as claimed: every fixture row is executed on a transaction, never on
\* the connection itself.
C21_AsClaimed == \A i \in FixtureExecs : log[i].tx # 0

\* C21 amended: a fixture row is executed on the transaction the fixture holds
\* at that moment - in a lifecycle run the one the run began, the committed
\* content staying as it was while InsertFixtures runs on a held transaction -
\* and, when InsertFixtures is called while Idle, on the connection itself: the
\* rows it accepts are then in the committed content of the database.
C21_OnHeldTransactionOrConnection ==
    [][ /\ last'.op = "InsertFixtures" =>
              /\ \A i \in FixtureExecs' : log'[i].tx = tx
              /\ tx # 0 => store' = store
              /\ tx = 0 =>
                    \A i \in FixtureExecs' :
                        log'[i].ok => Bind(log'[i].cols, log'[i].vals) \in store'[log'[i].t]
        /\ last'.op \in LifecycleOps =>
              \A i \in FixtureExecs' : log'[i].tx = last'.began /\ last'.began # 0 ]_vars

\* C21 witness: InsertFixtures called while Idle stored the two users rows in
\* the database, with no transaction begun
C21_Witness ==
    /\ last.op = "InsertFixtures"
    /\ last.outcome = "ok"
    /\ tx = 0
    /\ txs = <<>>
    /\ Cardinality(FixtureExecs) = 2
    /\ store[Users] = {U1, U2}

\* the callback of WithTransaction was called and returned an error
FnFailed == last.outcome # "panic" /\ \E i \in At("exit") \cap By("fn") : ~log[i].ok

\* a Rollback call of the last operation that the driver failed
RollbackFailed == \E i \in At("rollback") : log[i].n = 1 /\ ~log[i].ok

\* C22: a WithTransaction whose insertion failed returns the insertion error
\* naming the table of the failing row, one whose fn returned an error returns
\* that error, in both cases whether the rollback succeeded or failed.
C22_OriginalErrorReturned ==
    Ran({"WithTransaction"}) =>
        /\ ~InsOk =>
              /\ last.outcome = "error"
              /\ \E i \in FixtureExecs : ~log[i].ok /\ last.err = [e |-> "insert", t |-> log[i].t]
        /\ (InsOk /\ FnFailed) =>
              /\ last.outcome = "error"
              /\ last.err = Err("fn")

\* C22 witness: the insertion failed on users, the rollback failed as well, and
\* the caller got the insertion error
C22_Witness ==
    /\ Ran({"WithTransaction"})
    /\ ~InsOk
    /\ RollbackFailed
    /\ last.err = [e |-> "insert", t |-> Users]

\* the last operation is a lifecycle run with automatic insertion whose Begin
\* succeeded and whose fixture insertion failed
InsertionFailedInRun ==
    /\ Ran(RunOps \cup {"WithTransaction"})
    /\ ~InsOk

C24_RunsAreRepeatable ==
    [][ (autoRollback /\ Ran(RunOps) /\ last'.op \in RunOps) =>
            /\ tx = 0
            /\ tx' = 0
            /\ store' = store
            /\ last'.err.e # "already"
            /\ last'.began # 0 =>
                  /\ last'.began \notin DOMAIN txs
                  /\ \A i \in At("create")' :
                        log'[i].by = "setup" => (log'[i].ok <=> log'[i].t \notin DOMAIN store)
                  /\ By("test")' # {} =>
                        /\ Cardinality(FixtureExecs') = SumRows(DOMAIN fixtures)
                        /\ \A i \in FixtureExecs' : log'[i].ok
                  /\ \A t \in {Users, Posts} : CountsAfterSetupCreate(t)' \subseteq {RowsOf(t)} ]_vars

\* C24 witness: the second transaction of the connection was a run that created
\* the users table again, inserted both rows and counted 2, and the database
\* still has no users table
C24_Witness ==
    /\ Ran({"RunTestWithSetup"})
    /\ autoRollback
    /\ last.began = 2
    /\ \E i \in At("create") : log[i].t = Users /\ log[i].ok
    /\ Cardinality(FixtureExecs) = 2
    /\ CountsAfterSetupCreate(Users) = {2}
    /\ Users \notin DOMAIN store
    /\ tx = 0

LegacyOps == {"ExecInTransaction", "QueryInTransaction", "QueryRowInTransaction"}

\* C25: a legacy passthrough method runs its one statement on the handle the
\* fixture holds - the transaction GetTransaction() returns while Active, so
\* the committed content stays as it was - and neither begins nor closes a
\* transaction: the held handle and the openness of every transaction are
\* unchanged.
C25_LegacySharesExecutor ==
    [][ last'.op \in LegacyOps =>
            /\ tx' = tx
            /\ Len(txs') = Len(txs)
            /\ \A h \in DOMAIN txs : txs'[h].state = txs[h].state
            /\ Len(log') = 1
            /\ log'[1].tx = tx
            /\ log'[1].k \notin {"begin", "commit", "rollback"}
            /\ tx # 0 => store' = store ]_vars

\* C25 witness: ExecInTransaction inserted a row on the held transaction; the
\* row is in the transaction and not in the committed content
C25_Witness ==
    /\ last.op = "ExecInTransaction"
    /\ last.outcome = "ok"
    /\ tx \in OpenTxs
    /\ log[1].k = "insert"
    /\ log[1].tx = tx
    /\ U3 \in txs[tx].view[Users]
    /\ U3 \notin store[Users]

\* C26: an operation other than a load leaves the rows of every table and the
\* table order as they were; a load leaves the held handle, every transaction
\* and the committed content as they were.
C26_StoreChangedByLoadsOnly ==
    [][ /\ last'.op \notin LoadOps => (fixtures' = fixtures /\ tableOrder' = tableOrder)
        /\ last'.op \in LoadOps => (tx' = tx /\ txs' = txs /\ store' = store) ]_vars

\* C26 witness: a failed InsertFixtures inside a transaction, the fixture store
\* still holding its tables and rows
C26_Witness ==
    /\ last.op = "InsertFixtures"
    /\ last.outcome = "error"
    /\ tx \in OpenTxs
    /\ tableOrder # <<>>
    /\ Users \in DOMAIN fixtures
    /\ fixtures[Users] # <<>>

\* C27: a lifecycle operation whose Begin fails - a transaction is already
\* held, or the connection refuses - ends there with that error (returned by
\* WithTransaction, fatal in the test runs): no callback is entered, no fixture
\* row is executed, no Commit or Rollback is called, and the held handle, every
\* transaction and the committed content are as before the call.
C27_FailedBeginDoesNothing ==
    [][ (last'.op \in LifecycleOps /\ last'.began = 0) =>
            /\ last'.err = IF tx # 0 THEN Err("already") ELSE Err("begin")
            /\ last'.outcome = IF last'.op = "WithTransaction" THEN "error" ELSE "fatal"
            /\ \A i \in DOMAIN log' : log'[i].k = "begin" /\ ~log'[i].ok
            /\ tx' = tx
            /\ txs' = txs
            /\ store' = store ]_vars

\* C27 witness: in auto-cleanup mode WithTransaction was refused because a
\* transaction was held; that transaction is still open and held
C27_Witness ==
    /\ last.op = "WithTransaction"
    /\ autoRollback
    /\ last.err = Err("already")
    /\ log = <<>>
    /\ tx \in OpenTxs

\* C28: CommitTransaction and RollbackTransaction called while a transaction
\* is held make one call on it, return what that call answered and drop the
\* handle whatever it answered, the transaction being closed; BeginTransaction
\* called while Idle is never refused as already active: it either holds a new
\* open transaction, or - the connection refusing - returns the begin error and
\* stays Idle.
C28_ClosingAlwaysIdles ==
    [][ /\ (last'.op \in {"CommitTransaction", "RollbackTransaction"} /\ tx # 0) =>
              /\ tx' = 0
              /\ tx \notin OpenTxs'
              /\ Len(log') = 1
              /\ log'[1].tx = tx
              /\ log'[1].k = IF last'.op = "CommitTransaction" THEN "commit" ELSE "rollback"
              /\ last'.err = IF log'[1].ok THEN NoErr ELSE Err(log'[1].k)
              /\ last'.outcome = IF log'[1].ok THEN "ok" ELSE "error"
        /\ (last'.op = "BeginTransaction" /\ tx = 0) =>
              IF last'.err = NoErr
              THEN /\ tx' # 0
                   /\ tx' \notin DOMAIN txs
                   /\ tx' \in OpenTxs'
              ELSE /\ last'.err = Err("begin")
                   /\ tx' = 0
                   /\ txs' = txs ]_vars

\* C28 witness: a commit that the driver failed: the error was returned, the
\* handle is dropped and the transaction is closed
C28_Witness ==
    /\ last.op = "CommitTransaction"
    /\ last.err = Err("commit")
    /\ tx = 0
    /\ Len(txs) = 1
    /\ OpenTxs = {}

CleanOps == {"CleanUp", "TearDownTest"}

\* C29: CleanUp / TearDownTest called in auto-rollback mode with a transaction
\* held makes one Rollback call on it, which closes it, and drops the handle;
\* called in any other state it makes no call, changes nothing and reports no
\* error - so with auto-rollback disabled a held transaction stays open, a call
\* right after another call is a no-op, and a call after a test run whose
\* Begin was accepted reports no failure.
C29_CleanUpByMode ==
    [][ last'.op \in CleanOps =>
            /\ IF autoRollback /\ tx # 0
               THEN /\ Len(log') = 1
                    /\ log'[1].k = "rollback"
                    /\ log'[1].tx = tx
                    /\ log'[1].n = 1
                    /\ tx' = 0
                    /\ tx \notin OpenTxs'
                    /\ store' = store
               ELSE /\ log' = <<>>
                    /\ tx' = tx
                    /\ txs' = txs
                    /\ store' = store
                    /\ last'.err = NoErr
                    /\ last'.outcome = "ok"
            /\ (last.op \in CleanOps \/ Ran(LifecycleOps \ {"WithTransaction"})) =>
                  /\ log' = <<>>
                  /\ last'.outcome = "ok"
                  /\ tx' = tx
                  /\ txs' = txs ]_vars

\* C29 witness: TearDownTest in auto-rollback mode rolled back the held
\* transaction
C29_Witness ==
    /\ last.op = "TearDownTest"
    /\ autoRollback
    /\ Closed("rollback", 1) # {}
    /\ last.outcome = "ok"
    /\ tx = 0

TestFnOf(end) == CHOOSE fn \in TestFns : fn.end = end

SetupOps == {"SetupTest", "LoadFromDirectory"}

\* the table name each path of the file system stands for
NameOfPath(path) ==
    IF HasSuffix(path, <<"u", ".", "y", "m", "l">>) THEN Users
    ELSE IF HasSuffix(path, <<"p", ".", "y", "a", "m", "l">>) THEN Posts
    ELSE NoName

\* a walk loads a regular file named *.yml or *.yaml
IsYamlFile(v) ==
    /\ ~v.isDir
    /\ \/ HasSuffix(v.path, <<".", "y", "m", "l">>)
       \/ HasSuffix(v.path, <<".", "y", "a", "m", "l">>)

\* the error the load of file f must end with, "" when it must succeed
FileError(f) ==
    IF ~f.readable THEN "read"
    ELSE IF f.doc.shape = "map" /\ f.doc.entries # <<>> THEN ""
    ELSE IF f.doc.shape = "bad" \/ f.doc.shape = "map" THEN "parse"
    ELSE IF NameOfPath(f.path) = NoName THEN "noname"
    ELSE ""

\* the error step f of operation op must end with
StepError(op, f) ==
    IF op = "SetupTest" THEN FileError(f)
    ELSE IF f.err THEN "walk"
    ELSE IF IsYamlFile(f) THEN FileError(f)
    ELSE ""

\* the tables step f of operation op carries: table name -> rows
StepTables(op, f) ==
    IF op = "LoadFromDirectory" /\ (f.err \/ ~IsYamlFile(f)) THEN EmptyMap
    ELSE IF f.doc.shape = "map"
    THEN [n \in { f.doc.entries[i].name : i \in DOMAIN f.doc.entries } |->
             f.doc.entries[CHOOSE i \in DOMAIN f.doc.entries : f.doc.entries[i].name = n].rows]
    ELSE [n \in {NameOfPath(f.path)} |-> f.doc.rows]

\* the first step of files that must fail, Len(files) + 1 if none
FirstFailure(op, files) ==
    LET bad == { i \in DOMAIN files : StepError(op, files[i]) # "" }
    IN IF bad = {} THEN Len(files) + 1 ELSE CHOOSE i \in bad : \A j \in bad : i <= j

\* C32: SetupTest and LoadFromDirectory go through their files in the order
\* given (argument order, walk order), up to and including the first one whose
\* load fails and no further; they fail exactly when one fails (SetupTest
\* halts the test, LoadFromDirectory returns) with the error of that file;
\* and every table holds the rows of the last file loaded before the failure
\* that carries it, else the rows it had before the call.
C32_StopsAtFirstFailedLoad ==
    [][ last'.op \in SetupOps =>
            LET op == last'.op
                files == last'.arg
                stop == FirstFailure(op, files)
                good == 1..(stop - 1)
            IN  /\ Len(log') = IF stop > Len(files) THEN Len(files) ELSE stop
                /\ \A j \in DOMAIN log' :
                      /\ log'[j].n = j
                      /\ log'[j].t = files[j].path
                      /\ log'[j].ok = (j < stop)
                      /\ op = "SetupTest" => log'[j].k = "load"
                /\ IF stop > Len(files)
                   THEN last'.outcome = "ok" /\ last'.err = NoErr
                   ELSE /\ last'.outcome = IF op = "SetupTest" THEN "fatal" ELSE "error"
                        /\ last'.err = Err(StepError(op, files[stop]))
                /\ DOMAIN fixtures' =
                      DOMAIN fixtures \cup UNION { DOMAIN StepTables(op, files[i]) : i \in good }
                /\ \A t \in DOMAIN fixtures' :
                      LET H == { i \in good : t \in DOMAIN StepTables(op, files[i]) }
                      IN fixtures'[t] =
                            IF H = {} THEN fixtures[t]
                            ELSE StepTables(op, files[CHOOSE i \in H : \A j \in H : j <= i])[t] ]_vars

\* C32 witness: SetupTest(u.yml, b.yml, d/p.yaml) loaded users, halted the test
\* at b.yml with the parse error and never loaded posts; users stays stored
C32_Witness ==
    /\ last.op = "SetupTest"
    /\ Len(last.arg) = 3
    /\ last.arg[3] = PostsYaml
    /\ last.outcome = "fatal"
    /\ last.err = Err("parse")
    /\ Len(log) = 2
    /\ log[1].ok /\ ~log[2].ok
    /\ DOMAIN fixtures = {Users}
    /\ fixtures[Users] = <<U1, U2>>

\* C33: after any sequence of loads, failed ones included, no name is listed
\* twice in the table order and the listed names are exactly the keys of the
\* table-to-rows mapping.
C33_OrderListsEachTableOnce ==
    /\ \A i, j \in DOMAIN tableOrder : tableOrder[i] = tableOrder[j] => i = j
    /\ Range(tableOrder) = DOMAIN fixtures

\* C33 witness: posts was listed by an earlier load, then a document of users
\* and posts was loaded (posts again), and a later load failed
C33_Witness ==
    /\ last.op \in LoadOps
    /\ last.outcome = "error"
    /\ firstSeen = <<Posts, Users>>
    /\ tableOrder = <<Posts, Users>>
    /\ fixtures[Posts] = <<P1>>
    /\ fixtures[Users] = <<U1>>

\* the handle Fixture who holds, 0 when it is Idle
Holder(who) == IF who = "self" THEN tx ELSE peer.tx

\* the open transactions Fixture who began
OpenBy(who) == { h \in OpenTxs : begunBy[h] = who }

\* C34: with two Fixtures on one connection and their Begin, Commit,
\* Rollback, CleanUp and InsertFixtures calls interleaved in every way, a call
\* on one Fixture leaves the handle and the open transaction of the other as
\* they were, begins a transaction the connection had not handed out, commits
\* or rolls back only a transaction the same Fixture began, executes its
\* statements on its own transaction or on the connection, and each Fixture
\* has at most one open transaction: exactly the one it holds when Active,
\* none when Idle.
C34_InstancesAreIndependent ==
    [][ last'.arg \in Instances =>
            /\ \A other \in Instances \ {last'.arg} :
                  /\ Holder(other)' = Holder(other)
                  /\ OpenBy(other)' = OpenBy(other)
            /\ \A i \in DOMAIN log' :
                  /\ log'[i].k \in {"commit", "rollback"} =>
                        /\ log'[i].tx \in DOMAIN begunBy
                        /\ begunBy[log'[i].tx] = last'.arg
                  /\ (log'[i].k = "begin" /\ log'[i].ok) =>
                        /\ log'[i].tx \notin DOMAIN txs
                        /\ begunBy'[log'[i].tx] = last'.arg
                  /\ (log'[i].k = "fixture" /\ log'[i].tx # 0) =>
                        begunBy'[log'[i].tx] = last'.arg
            /\ \A who \in Instances :
                  /\ Cardinality(OpenBy(who)') <= 1
                  /\ Holder(who)' # 0 => OpenBy(who)' = {Holder(who)'}
                  /\ Holder(who)' = 0 => OpenBy(who)' = {} ]_vars

\* C34 witness: both Fixtures were Active at once; the second rolled its
\* transaction back and is Idle, while the first still holds its open
\* transaction with the row it inserted
C34_Witness ==
    /\ last.arg = "peer"
    /\ last.op = "RollbackTransaction"
    /\ last.outcome = "ok"
    /\ peer.tx = 0
    /\ tx # 0
    /\ IsOpen(M, tx)
    /\ begunBy[tx] = "self"
    /\ txs[tx].view[Users] = {U1}
    /\ \E i \in At("rollback") : log[i].n = 1 /\ begunBy[log[i].tx] = "peer" /\ log[i].tx > tx

\* the greatest element of the set of numbers I, 0 for the empty set
Greatest(I) == IF I = {} THEN 0 ELSE CHOOSE i \in I : \A j \in I : j <= i

\* the last path element of hint (trailing separators aside; the root for a
\* hint of separators only) with its final extension removed
ExpectedName(hint) ==
    LET end == Greatest({ i \in DOMAIN hint : hint[i] # Slash })
        start == Greatest({ i \in 1..end : hint[i] = Slash }) + 1
        dot == Greatest({ i \in start..end : hint[i] = Dot })
    IN IF hint = <<>> THEN <<>>
       ELSE IF end = 0 THEN <<Slash>>
       ELSE IF dot = 0 THEN SubSeq(hint, start, end)
       ELSE SubSeq(hint, start, dot - 1)

\* the base name of hint is an extension and nothing else: a dot, then no further dot
OnlyExtension(hint) ==
    LET end == Greatest({ i \in DOMAIN hint : hint[i] # Slash })
        start == Greatest({ i \in 1..end : hint[i] = Slash }) + 1
    IN /\ end # 0
       /\ hint[start] = Dot
       /\ \A i \in (start + 1)..end : hint[i] # Dot

\* C35: a bare list loaded under a name hint is registered under the last
\* path element of the hint without its final extension, whatever the
\* directory; the name is empty exactly for the empty hint and for a hint whose
\* base name is only an extension, and then the load fails with the
\* name-inference error and registers nothing.
C35_NameFromHint ==
    (last.op = "LoadFromYAMLWithFilename" /\ last.arg.doc.shape = "list") =>
        /\ ExpectedName(last.arg.filename) = <<>> <=>
              (last.arg.filename = <<>> \/ OnlyExtension(last.arg.filename))
        /\ IF ExpectedName(last.arg.filename) = <<>>
           THEN /\ last.outcome = "error"
                /\ last.err = Err("noname")
                /\ fixtures = EmptyMap
                /\ tableOrder = <<>>
           ELSE /\ last.outcome = "ok"
                /\ DOMAIN fixtures = {ExpectedName(last.arg.filename)}
                /\ fixtures[ExpectedName(last.arg.filename)] = last.arg.doc.rows
                /\ tableOrder = <<ExpectedName(last.arg.filename)>>

\* C35 witness: the rows loaded under the hint "./u." below a dotted directory
\* are the table u
C35_Witness ==
    /\ last.op = "LoadFromYAMLWithFilename"
    /\ last.arg.doc.shape = "list"
    /\ last.arg.filename = <<".", "/", "u", ".">>
    /\ last.outcome = "ok"
    /\ tableOrder = <<Users>>
    /\ fixtures[Users] = <<U1, U2>>

====
